---------------------------- MODULE Spec2Model ----------------------------
(***************************************************************************)
(* A model of the network discovery module (src/src/network/discovery.c).  *)
(*                                                                         *)
(* C strings are sequences of one-character strings, so that the checks    *)
(* the code makes character by character (validate_ip_string,              *)
(* validate_community_string), its truncating copies (strncpy, %15s) and   *)
(* its conversions (sscanf %d, snprintf %d) are computed rather than       *)
(* assumed.  The registry is the global array discovered_hosts together    *)
(* with discovered_count: the sequence discovered_hosts of the model is    *)
(* the array's first discovered_count elements.                            *)
(*                                                                         *)
(* The collaborators (ip route, snmpwalk, ip neigh / arp, ss / netstat,    *)
(* ping) are the environment: every external command is answered by a      *)
(* nondeterministic choice among small sets of outputs.  An address field  *)
(* of such an output holds a dotted quad, a string with a character that   *)
(* is neither a digit nor '.', or (in the connection table, whose fields   *)
(* are read 63 characters wide) a run of digits and dots longer than an    *)
(* address.                                                                *)
(***************************************************************************)
EXTENDS Integers, Sequences, FiniteSets, TLC

VARIABLES
    discovered_hosts,   \* discovered_hosts[0 .. discovered_count-1]
    pc,                 \* position of the running entry point
    gateway,            \* char gateway[MAX_IP_LEN] of discover_automatic
    routers_to_query,   \* routers_to_query[0 .. routers_to_check-1]
    routers_queried,    \* int routers_queried
    comm,               \* index i of the communities loop (1-based)
    snmp_success,       \* int snmp_success
    nexthops,           \* nexthops[0 .. nexthop_count-1] of the last next-hop query
    visited,            \* the routers the walk has queried, in order
    tried,              \* the queries sent to the router visited last, in order,
                        \* each with the number of addresses it gave
    answered,           \* whether a router has given a non-empty interface list in this run
    cmds,               \* the external commands issued by the last step
    steps,              \* the collection steps the current run has executed
    report,             \* the rows of the final result listing
    ret,                \* the value returned by the last entry point
    probes,             \* the addresses the last scan_subnet call had pinged
    network,            \* the network the run takes place in (the environment)
    scenario,           \* what the routers and tables of the "e2e" network hold
    op,                 \* the entry point that is running or has returned last
    scan_call,          \* the arguments of the last scan_subnet call
    network_addr,       \* char network_addr[MAX_IP_LEN] of discover_multi_subnet
    gateways,           \* gateways[0 .. gateway_count-1] of the last traceroute
    hop_index,          \* index j of the loop over gateways
    target_index,       \* index i of the loop over common_gateways (1-based)
    hosts_found,        \* the value the last scan_subnet call returned
    call_args,          \* the arguments of the last call of a single function
    result,             \* the list that call wrote through its out-parameter
    writers             \* where each of two concurrent callers is in the
                        \* presence check and insertion of scan_subnet

\* the locals of discover_automatic
walkVars == <<gateway, routers_to_query, routers_queried, comm, snmp_success,
              nexthops, visited, tried, answered, steps, report, scenario>>

\* the locals of the scanning entry points
scanVars == <<probes, scan_call, network_addr, gateways, hop_index, target_index,
              hosts_found>>

\* what a call of a single function leaves behind
callVars == <<call_args, result>>

vars == <<discovered_hosts, pc, cmds, ret, network, op, walkVars, scanVars, callVars, writers>>

(***************************************************************************)
(* Program constants                                                       *)
(***************************************************************************)
MAX_DISCOVERED_HOSTS == 1024
MAX_HOPS == 30
MAX_IP_LEN == 16

(***************************************************************************)
(* Bounds of the model                                                     *)
(***************************************************************************)
\* the longest output, in lines, an external command gives
MaxLines == 2
\* the number of distinct private next-hops of the largest routing table:
\* more than MAX_HOPS, so that the caps of the walk are met
FanSize == 35
\* the number of addresses in the ARP table of a router with a crowded
\* segment: a few such routers fill the registry
CrowdSize == 40

(***************************************************************************)
(* Characters and strings                                                  *)
(***************************************************************************)
DigitChars == <<"0", "1", "2", "3", "4", "5", "6", "7", "8", "9">>

Digits == {DigitChars[i] : i \in 1..10}

Lower == {"a", "b", "c", "d", "e", "f", "g", "h", "i", "j", "k", "l", "m",
          "n", "o", "p", "q", "r", "s", "t", "u", "v", "w", "x", "y", "z"}

Upper == {"A", "B", "C", "D", "E", "F", "G", "H", "I", "J", "K", "L", "M",
          "N", "O", "P", "Q", "R", "S", "T", "U", "V", "W", "X", "Y", "Z"}

DigitVal(c) == CHOOSE d \in 0..9 : DigitChars[d + 1] = c

\* the first n characters of s (strncpy(dst, s, n) followed by dst[n] = 0)
Take(s, n) == IF Len(s) <= n THEN s ELSE SubSeq(s, 1, n)

\* whether s starts with the characters of p (strncmp(s, p, strlen(p)) == 0)
StartsWith(s, p) == Len(s) >= Len(p) /\ SubSeq(s, 1, Len(p)) = p

\* snprintf "%d" of an integer
RECURSIVE Dec(_)
Dec(n) ==
    IF n < 0 THEN <<"-">> \o Dec(-n)
    ELSE IF n < 10 THEN <<DigitChars[n + 1]>>
    ELSE Dec(n \div 10) \o <<DigitChars[(n % 10) + 1]>>

\* snprintf(buf, MAX_IP_LEN, "%d.%d.%d.%d", o[1], o[2], o[3], o[4])
FormatIp(o) ==
    Take(Dec(o[1]) \o <<".">> \o Dec(o[2]) \o <<".">> \o Dec(o[3]) \o <<".">> \o Dec(o[4]),
         MAX_IP_LEN - 1)

\* the position after the run of digits of s that starts at position p
RECURSIVE DigitsEnd(_, _)
DigitsEnd(s, p) ==
    IF p <= Len(s) /\ s[p] \in Digits THEN DigitsEnd(s, p + 1) ELSE p

\* the value of the decimal digits s[p .. q-1]
RECURSIVE DecVal(_, _, _)
DecVal(s, p, q) ==
    IF q <= p THEN 0 ELSE DecVal(s, p, q - 1) * 10 + DigitVal(s[q - 1])

\* the conversions sscanf(ip, "%d.%d.%d.%d", ...) assigns, in order, reading
\* s from position p with k conversions left: it stops at the first field
\* that is no number or is not followed by '.'
RECURSIVE ScanOctets(_, _, _)
ScanOctets(s, p, k) ==
    LET q == DigitsEnd(s, p)
    IN  IF k = 0 \/ q = p THEN <<>>
        ELSE <<DecVal(s, p, q)>> \o
             (IF q <= Len(s) /\ s[q] = "." THEN ScanOctets(s, q + 1, k - 1) ELSE <<>>)

\* parse_ip: the octets assigned (those it does not assign keep what the
\* caller's array held)
parse_ip(ip) == ScanOctets(ip, 1, 4)

\* the characters validate_ip_string lets through
IpChars == Digits \cup {"."}

\* the characters validate_community_string lets through
CommunityChars == Lower \cup Upper \cup Digits \cup {"_", "-"}

\* validate_ip_string without the test for the empty string
validate_ip_string_chars(ip_addr) ==
    \A i \in 1..Len(ip_addr) : ip_addr[i] \in IpChars

validate_ip_string(ip_addr) ==
    /\ ip_addr # <<>>
    /\ \A i \in 1..Len(ip_addr) : ip_addr[i] \in IpChars

\* validate_community_string without the test of the characters
validate_community_string_nonempty(community) == community # <<>>

validate_community_string(community) ==
    /\ community # <<>>
    /\ \A i \in 1..Len(community) : community[i] \in CommunityChars


(***************************************************************************)
(* The registry: discovered_hosts[] and discovered_count                   *)
(***************************************************************************)
discovered_count == Len(discovered_hosts)

\* the value of ret while an entry point has not returned
Running == "running"

\* the scan "for (j = 0; j < discovered_count; j++) if (strcmp(..., ip) == 0)"
already_found(hosts, ip) == \E j \in 1..Len(hosts) : hosts[j].ip_address = ip

\* store_host that puts the new entry in front of the others
store_host_first(hosts, ip, response_time) ==
    <<[ip_address |-> Take(ip, MAX_IP_LEN - 1),
       response_time_ms |-> response_time,
       is_reachable |-> 1]>> \o hosts

\* the write of discovered_hosts[discovered_count] followed by discovered_count++
store_host(hosts, ip, response_time) ==
    Append(hosts, [ip_address |-> Take(ip, MAX_IP_LEN - 1),
                   response_time_ms |-> response_time,
                   is_reachable |-> 1])

\* get_discovered_host(index, ip, response_time) on the registry hosts: the
\* value returned and what the two out-parameters then hold
NoHost == [ret |-> -1, ip |-> <<>>, response_time |-> 0]

get_discovered_host(index, hosts) ==
    IF index < 0 \/ index >= Len(hosts) THEN NoHost
    ELSE [ret |-> 0,
          ip |-> Take(hosts[index + 1].ip_address, MAX_IP_LEN - 1),
          response_time |-> hosts[index + 1].response_time_ms]

(***************************************************************************)
(* Router queries (snmpwalk).  A line of output either holds "IpAddress:"  *)
(* followed by a token (ip = TRUE) or does not (ip = FALSE); out.ok says   *)
(* whether popen started the command.                                      *)
(***************************************************************************)
Ln(tok) == [ip |-> TRUE, tok |-> tok]

\* an external command handed to popen: the program, for snmpwalk the table
\* and the community, and the address put into the command line
Cmd(prog, oid, community, addr) ==
    [prog |-> prog, oid |-> oid, community |-> community, addr |-> addr]

OtherLine == [ip |-> FALSE, tok |-> <<>>]

Output(lines) == [ok |-> TRUE, lines |-> lines]

NotStarted == [ok |-> FALSE, lines |-> <<>>]

\* strstr(result, "IpAddress:") and sscanf(ip_start, "%15s", ip): the token
\* read, <<>> when the line has none
SnmpIp(line) == IF line.ip THEN Take(line.tok, 15) ELSE <<>>

\* the guard every router query evaluates before it builds its command
snmp_inputs_valid(router_ip, community) ==
    validate_ip_string(router_ip) /\ validate_community_string(community)

\* the snmpwalk command a router query hands to popen, if it gets that far
snmp_command(oid, router_ip, community) ==
    IF snmp_inputs_valid(router_ip, community)
    THEN {Cmd("snmpwalk", oid, community, router_ip)}
    ELSE {}

\* is_private with the upper end of 172.16/12 off by one
is_private_wide(octets) ==
    \/ octets[1] = 10
    \/ (octets[1] = 172 /\ octets[2] >= 16 /\ octets[2] <= 32)
    \/ (octets[1] = 192 /\ octets[2] = 168)

is_private(octets) ==
    \/ octets[1] = 10
    \/ (octets[1] = 172 /\ octets[2] >= 16 /\ octets[2] <= 31)
    \/ (octets[1] = 192 /\ octets[2] = 168)

InList(list, ip) == \E j \in 1..Len(list) : list[j] = ip

\* the fgets loop of discover_router_interfaces
RECURSIVE interfaces_loop(_, _, _)
interfaces_loop(lines, interfaces, max_ifaces) ==
    IF lines = <<>> \/ Len(interfaces) >= max_ifaces THEN interfaces
    ELSE LET ip == SnmpIp(Head(lines))
             rest == Tail(lines)
         IN  IF ~validate_ip_string(ip) THEN interfaces_loop(rest, interfaces, max_ifaces)
             ELSE IF StartsWith(ip, <<"1", "2", "7", ".">>)
                  THEN interfaces_loop(rest, interfaces, max_ifaces)
             ELSE IF InList(interfaces, ip)
                  THEN interfaces_loop(rest, interfaces, max_ifaces)
             ELSE interfaces_loop(rest, Append(interfaces, Take(ip, MAX_IP_LEN - 1)),
                                  max_ifaces)

discover_router_interfaces(router_ip, community, out, max_ifaces) ==
    IF ~snmp_inputs_valid(router_ip, community) THEN <<>>
    ELSE IF ~out.ok THEN <<>>
    ELSE interfaces_loop(out.lines, <<>>, max_ifaces)

\* the fgets loop of discover_nexthop_routers
RECURSIVE nexthops_loop(_, _, _, _)
nexthops_loop(lines, router_ip, list, max_nexthops) ==
    IF lines = <<>> \/ Len(list) >= max_nexthops THEN list
    ELSE LET ip == SnmpIp(Head(lines))
             rest == Tail(lines)
         IN  IF ~validate_ip_string(ip) THEN nexthops_loop(rest, router_ip, list, max_nexthops)
             ELSE IF ip = <<"0", ".", "0", ".", "0", ".", "0">>
                  THEN nexthops_loop(rest, router_ip, list, max_nexthops)
             ELSE IF ~is_private(parse_ip(ip))
                  THEN nexthops_loop(rest, router_ip, list, max_nexthops)
             ELSE IF ip = router_ip
                  THEN nexthops_loop(rest, router_ip, list, max_nexthops)
             ELSE IF InList(list, ip)
                  THEN nexthops_loop(rest, router_ip, list, max_nexthops)
             ELSE nexthops_loop(rest, router_ip, Append(list, Take(ip, MAX_IP_LEN - 1)),
                                max_nexthops)

discover_nexthop_routers(router_ip, community, out, max_nexthops) ==
    IF ~snmp_inputs_valid(router_ip, community) THEN <<>>
    ELSE IF ~out.ok THEN <<>>
    ELSE nexthops_loop(out.lines, router_ip, <<>>, max_nexthops)

\* the fgets loop of try_snmp_community (and of discover_snmp_arp): the registry
\* after it
RECURSIVE snmp_arp_loop(_, _)
snmp_arp_loop(lines, hosts) ==
    IF lines = <<>> \/ Len(hosts) >= MAX_DISCOVERED_HOSTS THEN hosts
    ELSE LET ip == SnmpIp(Head(lines))
         IN  IF validate_ip_string(ip) /\ ~already_found(hosts, ip)
             THEN snmp_arp_loop(Tail(lines), store_host(hosts, ip, 0))
             ELSE snmp_arp_loop(Tail(lines), hosts)

\* try_snmp_community: the registry after the call (hosts_found is the growth)
try_snmp_community(router_ip, community, out, hosts) ==
    IF ~validate_ip_string(router_ip) THEN hosts
    ELSE IF ~validate_community_string(community) THEN hosts
    ELSE IF ~out.ok THEN hosts
    ELSE snmp_arp_loop(out.lines, hosts)


(***************************************************************************)
(* Passive collectors                                                      *)
(***************************************************************************)
\* get_default_gateway.  out.ok: popen started the command; out.lines: what
\* it printed.  found: the value returned; written: whether fgets wrote the
\* caller's buffer; text: what the buffer then holds (fgets reads at most
\* gateway_size - 1 characters and the trailing newline is removed).
get_default_gateway(out, gateway_size) ==
    IF ~out.ok \/ out.lines = <<>>
    THEN [found |-> FALSE, written |-> FALSE, text |-> <<>>]
    ELSE LET text == Take(Head(out.lines), gateway_size - 1)
         IN  [found |-> validate_ip_string(text), written |-> TRUE, text |-> text]

\* A line of "ip neigh show" or "arp -a" output.  fmt = "neigh": the line is
\* "IP dev IFACE lladdr MAC [STATE]" (has_state says whether STATE is there);
\* fmt = "arp": it is "HOST (IP) at MAC ..."; any other line matches neither
\* format.  mac and state are only compared with string constants.
NeighLine(ip, mac, state) ==
    [fmt |-> "neigh", ip |-> ip, mac |-> mac, has_state |-> TRUE, state |-> state]

NeighLineNoState(ip, mac) ==
    [fmt |-> "neigh", ip |-> ip, mac |-> mac, has_state |-> FALSE, state |-> ""]

ArpLine(ip, mac) ==
    [fmt |-> "arp", ip |-> ip, mac |-> mac, has_state |-> FALSE, state |-> ""]

JunkLine == [fmt |-> "other", ip |-> <<>>, mac |-> "", has_state |-> FALSE, state |-> ""]

\* sscanf(result, "%15s dev %31s lladdr %31s %31s", ip, iface, mac, state) >= 3:
\* a first token longer than 15 characters is cut and " dev" then fails to match
matches_neigh(line) == line.fmt = "neigh" /\ line.ip # <<>> /\ Len(line.ip) <= 15

\* sscanf(result, "%*s (%15[^)]) at %31s", ip, mac) >= 2
matches_arp(line) == line.fmt = "arp" /\ line.ip # <<>> /\ Len(line.ip) <= 15

\* the fgets loop of the local ARP step of discover_automatic: the registry after
\* it.  state is declared before the loop: a line without STATE leaves in it
\* what an earlier line wrote.
RECURSIVE automatic_arp_loop(_, _, _)
automatic_arp_loop(lines, state, hosts) ==
    IF lines = <<>> \/ Len(hosts) >= MAX_DISCOVERED_HOSTS THEN hosts
    ELSE LET line == Head(lines)
             st == IF matches_neigh(line) /\ line.has_state THEN line.state ELSE state
             accept == IF matches_neigh(line)
                       THEN validate_ip_string(line.ip) /\ st # "FAILED"
                       ELSE /\ matches_arp(line)
                            /\ validate_ip_string(line.ip)
                            /\ line.mac # "<incomplete>"
         IN  IF accept /\ ~already_found(hosts, line.ip)
             THEN automatic_arp_loop(Tail(lines), st, store_host(hosts, line.ip, 0))
             ELSE automatic_arp_loop(Tail(lines), st, hosts)

\* A line of "ss -tn" / "netstat -tn" output: fields says whether it has the
\* five fields sscanf "%*s %*s %*s %63s %63s" wants, remote is the fifth.
ConnLine(remote) == [fields |-> TRUE, remote |-> remote]

ShortLine == [fields |-> FALSE, remote |-> <<>>]

\* strrchr(remote_addr, ':'): the position of the last ':' of s, 0 for none
RECURSIVE LastColon(_, _)
LastColon(s, p) == IF p = 0 THEN 0 ELSE IF s[p] = ":" THEN p ELSE LastColon(s, p - 1)

v4mapped == <<":", ":", "f", "f", "f", "f", ":">>

localhost == <<"1", "2", "7", ".", "0", ".", "0", ".", "1">>

\* the address the connection loops take from a line: the remote field up to
\* its last ':' and without a leading "::ffff:"; <<>> when the line gives none
conn_ip(line) ==
    IF ~line.fields THEN <<>>
    ELSE LET remote_addr == Take(line.remote, 63)
             colon == LastColon(remote_addr, Len(remote_addr))
             ip == SubSeq(remote_addr, 1, colon - 1)
         IN  IF colon = 0 THEN <<>>
             ELSE IF StartsWith(ip, v4mapped) THEN SubSeq(ip, 8, Len(ip))
             ELSE ip

\* the fgets loop of the connection step: the registry after it
RECURSIVE connections_loop(_, _)
connections_loop(lines, hosts) ==
    IF lines = <<>> \/ Len(hosts) >= MAX_DISCOVERED_HOSTS THEN hosts
    ELSE LET ip == conn_ip(Head(lines))
         IN  IF validate_ip_string(ip) /\ ip # localhost /\ ~already_found(hosts, ip)
             THEN connections_loop(Tail(lines), store_host(hosts, ip, 0))
             ELSE connections_loop(Tail(lines), hosts)


(***************************************************************************)
(* The environment of discover_automatic                                   *)
(***************************************************************************)
GW == FormatIp(<<10, 0, 0, 1>>)

R2 == FormatIp(<<10, 0, 0, 2>>)

R3 == FormatIp(<<172, 16, 0, 3>>)

H1 == FormatIp(<<192, 168, 1, 5>>)

PUB == FormatIp(<<8, 8, 8, 8>>)

ZERO == FormatIp(<<0, 0, 0, 0>>)

\* just outside 172.16/12
EDGE == FormatIp(<<172, 32, 0, 1>>)

\* what "ip route | awk '{print $3}'" prints for "default dev tun0 scope link"
TUN == <<"t", "u", "n", "0">>

\* an address field with a shell metacharacter in it
BAD == <<"1", ".", "1", ";", "x">>

\* every sequence of at most n elements of S
SeqUpTo(S, n) == UNION {[1..k -> S] : k \in 0..n}

FanAddr(k) == FormatIp(<<10, 9, 9, k>>)

FanRouters == {FanAddr(k) : k \in 1..FanSize}

\* the large routing table: FanSize distinct private next-hops
Fan == [k \in 1..FanSize |-> Ln(FanAddr(k))]

CrowdAddr(n, k) == FormatIp(<<10, 8, n, k>>)

\* the ARP table of the n-th router of a chain of routers with crowded
\* segments: CrowdSize addresses no other router lists
Crowd(n) == [k \in 1..CrowdSize |-> Ln(CrowdAddr(n, k))]

PUBLIC == <<"p", "u", "b", "l", "i", "c">>

\* the communities of discover_automatic without "public"
communities_without_public ==
    << <<"a", "b", "c">>,
       <<"p", "r", "i", "v", "a", "t", "e">>,
       <<"c", "o", "m", "m", "u", "n", "i", "t", "y">>,
       <<"c", "i", "s", "c", "o">> >>

\* the communities discover_automatic tries, in order
communities ==
    << <<"a", "b", "c">>,
       PUBLIC,
       <<"p", "r", "i", "v", "a", "t", "e">>,
       <<"c", "o", "m", "m", "u", "n", "i", "t", "y">>,
       <<"c", "i", "s", "c", "o">> >>

\* an interface address of the gateway router on another subnet
I3 == FormatIp(<<10, 0, 1, 1>>)

\* what the gateway buffer may hold when nothing wrote it
Uninitialised == {<<>>, <<"?">>}

\* The run takes place in one of three networks.  In the small one ("lan")
\* every command may print any sequence of at most MaxLines lines over the
\* lines below.  In the large one ("wan") a routing table may list FanSize
\* routers, none of which answers a query, and the other commands print
\* little.  The third ("e2e") is the end-to-end environment of spec section 8:
\* a working default gateway, one router that answers only under the second
\* community and reports two interfaces and one next-hop, a local ARP cache
\* with one further address, nothing else; scenario says which addresses.
Networks == {"lan", "wan", "e2e", "crowd"}

NoScenario == [ifaces |-> <<>>, hop |-> <<>>, arp |-> <<>>]

Scenarios ==
    {[ifaces |-> <<a, b>>, hop |-> R3, arp |-> H1] : a, b \in {GW, R2, I3}} \
        {[ifaces |-> <<a, a>>, hop |-> R3, arp |-> H1] : a \in {GW, R2, I3}}

ScenariosOf(net) == IF net = "e2e" THEN Scenarios ELSE {NoScenario}

GatewayOutputs(net) ==
    IF net \in {"e2e", "crowd"} THEN {Output(<<GW>>)}
    ELSE {NotStarted, Output(<<>>), Output(<<GW>>), Output(<<TUN>>), Output(<< <<>> >>)}

IfaceLines == {Ln(GW), Ln(R2), Ln(localhost), Ln(BAD)}

LanIfaceOutputs == {NotStarted} \cup {Output(l) : l \in SeqUpTo(IfaceLines, MaxLines)}

IfaceOutputs(router) ==
    IF network = "lan"
    THEN LanIfaceOutputs
    ELSE IF network = "e2e"
    THEN IF router = GW /\ communities[comm] = PUBLIC
         THEN {Output(<<Ln(scenario.ifaces[1]), Ln(scenario.ifaces[2])>>)}
         ELSE {Output(<<>>)}
    ELSE IF network = "crowd"
    THEN {Output(<<Ln(router)>>)}
    ELSE IF router \in FanRouters THEN {Output(<<>>)}
    ELSE {Output(<<>>), Output(<<Ln(GW), Ln(R2)>>)}

NextHopLines == {Ln(GW), Ln(R2), Ln(R3), Ln(PUB), Ln(ZERO), Ln(EDGE), Ln(BAD)}

LanNextHopOutputs == {NotStarted} \cup {Output(l) : l \in SeqUpTo(NextHopLines, MaxLines)}

NextHopOutputs ==
    IF network = "lan"
    THEN LanNextHopOutputs
    ELSE IF network = "e2e" THEN {Output(<<Ln(scenario.hop)>>)}
    ELSE IF network = "crowd"
    THEN {Output(<<Ln(FanAddr(routers_queried + 1))>>)}
    ELSE {Output(Fan), Output(<<Ln(PUB), Ln(R2), Ln(GW)>> \o Fan), Output(<<Ln(R2)>>)}

RouterArpLines == {Ln(H1), Ln(R2), Ln(BAD), OtherLine}

LanRouterArpOutputs == {NotStarted} \cup {Output(l) : l \in SeqUpTo(RouterArpLines, MaxLines)}

RouterArpOutputs ==
    IF network = "lan"
    THEN LanRouterArpOutputs
    ELSE IF network = "e2e" THEN {Output(<<>>)}
    ELSE IF network = "crowd" THEN {Output(Crowd(routers_queried))}
    ELSE {Output(<<>>), Output(<<Ln(H1)>>)}

LocalArpLines ==
    {NeighLine(H1, "aa:bb", "REACHABLE"), NeighLine(R3, "aa:cc", "FAILED"),
     NeighLineNoState(GW, "aa:dd"), ArpLine(PUB, "aa:ee"),
     ArpLine(R2, "<incomplete>"), NeighLine(BAD, "aa:ff", "STALE")}

LanLocalArpOutputs == {NotStarted} \cup {Output(l) : l \in SeqUpTo(LocalArpLines, MaxLines)}

LocalArpOutputs ==
    IF network = "lan"
    THEN LanLocalArpOutputs
    ELSE IF network = "e2e" THEN {Output(<<NeighLine(scenario.arp, "aa:bb", "REACHABLE")>>)}
    ELSE {Output(<<>>), Output(<<NeighLine(H1, "aa:bb", "REACHABLE")>>)}

Port == <<":", "4", "4", "3">>

\* a token of digits and dots that is one character longer than an address
\* field holds: "192.168.100.1000"
LONG == FormatIp(<<192, 168, 100, 100>>) \o <<"0">>

ConnLines ==
    {ConnLine(H1 \o Port), ConnLine(v4mapped \o PUB \o Port), ConnLine(localhost \o Port),
     ConnLine(<<"[", ":", ":", "1", "]">> \o Port), ConnLine(LONG \o Port), ShortLine}

LanConnOutputs == {NotStarted} \cup {Output(l) : l \in SeqUpTo(ConnLines, MaxLines)}

ConnOutputs ==
    IF network = "lan"
    THEN LanConnOutputs
    ELSE IF network = "e2e" THEN {Output(<<>>)}
    ELSE {Output(<<>>), Output(<<ConnLine(H1 \o Port)>>)}

(***************************************************************************)
(* discover_automatic, one step per external command                       *)
(***************************************************************************)
\* a gateway step that returns at once when it finds no gateway
after_gateway_return(found) == IF found THEN "walk" ELSE "done"

\* where the gateway step continues: the walk, or (goto arp_fallback) step 3
after_gateway(found) == IF found THEN "walk" ELSE "arp"

\* the condition of the while loop over routers_to_query
walk_continues(queried, to_query) == queried < Len(to_query) /\ queried < MAX_HOPS

\* a walk that ends with the visit of any router
after_visit_stop(queried, to_query) == "arp"

after_visit(queried, to_query) ==
    IF walk_continues(queried, to_query) THEN "walk" ELSE "arp"

current_router == routers_to_query[routers_queried + 1]

\* "Add all router interfaces to discovered hosts"
RECURSIVE add_interfaces(_, _)
add_interfaces(interfaces, hosts) ==
    IF interfaces = <<>> \/ Len(hosts) >= MAX_DISCOVERED_HOSTS THEN hosts
    ELSE IF already_found(hosts, Head(interfaces))
         THEN add_interfaces(Tail(interfaces), hosts)
    ELSE add_interfaces(Tail(interfaces), store_host(hosts, Head(interfaces), 0))

\* the loop over nexthops without the already_in_list scan
RECURSIVE add_nexthops_unlisted(_, _, _)
add_nexthops_unlisted(list, to_query, hosts) ==
    IF list = <<>> THEN [to_query |-> to_query, hosts |-> hosts]
    ELSE LET hop == Head(list)
             q == IF Len(to_query) < MAX_HOPS
                  THEN Append(to_query, Take(hop, MAX_IP_LEN - 1))
                  ELSE to_query
             h == IF ~already_found(hosts, hop) /\ Len(hosts) < MAX_DISCOVERED_HOSTS
                  THEN store_host(hosts, hop, 0)
                  ELSE hosts
         IN  add_nexthops_unlisted(Tail(list), q, h)

\* a loop over nexthops that extends the frontier and never the registry
RECURSIVE add_nexthops_unrecorded(_, _, _)
add_nexthops_unrecorded(list, to_query, hosts) ==
    IF list = <<>> THEN [to_query |-> to_query, hosts |-> hosts]
    ELSE LET hop == Head(list)
             q == IF ~InList(to_query, hop) /\ Len(to_query) < MAX_HOPS
                  THEN Append(to_query, Take(hop, MAX_IP_LEN - 1))
                  ELSE to_query
         IN  add_nexthops_unrecorded(Tail(list), q, hosts)

\* the loop over nexthops: routers_to_query and the registry after it
RECURSIVE add_nexthops(_, _, _)
add_nexthops(list, to_query, hosts) ==
    IF list = <<>> THEN [to_query |-> to_query, hosts |-> hosts]
    ELSE LET hop == Head(list)
             q == IF ~InList(to_query, hop) /\ Len(to_query) < MAX_HOPS
                  THEN Append(to_query, Take(hop, MAX_IP_LEN - 1))
                  ELSE to_query
             h == IF ~already_found(hosts, hop) /\ Len(hosts) < MAX_DISCOVERED_HOSTS
                  THEN store_host(hosts, hop, 0)
                  ELSE hosts
         IN  add_nexthops(Tail(list), q, h)

\* a result listing that labels the last row instead of the first
result_rows_last(hosts, gw, success) ==
    [i \in 1..Len(hosts) |->
        [ip |-> hosts[i].ip_address,
         source |-> IF i = Len(hosts) /\ gw # <<>> THEN "Gateway"
                    ELSE IF success # 0 THEN "Router ARP/Local"
                    ELSE "Local ARP/Conn"]]

\* a count that reports an empty registry as the error value
total_hosts_or_error(hosts) == IF hosts = <<>> THEN -1 ELSE Len(hosts)

\* total_hosts = discovered_count, the value discover_automatic returns
total_hosts(hosts) == Len(hosts)

\* the rows of the result listing
result_rows(hosts, gw, success) ==
    [i \in 1..Len(hosts) |->
        [ip |-> hosts[i].ip_address,
         source |-> IF i = 1 /\ gw # <<>> THEN "Gateway"
                    ELSE IF success # 0 THEN "Router ARP/Local"
                    ELSE "Local ARP/Conn"]]

\* An entry point is entered when none is running.  Locals of the entry
\* points that have returned no longer exist: entering one sets them to
\* what Init gives them.
EntryPoint == {"idle", "done", "returned"}

NoScan == [network_addr |-> <<>>, prefix_len |-> 0]

ResetScan ==
    /\ probes' = <<>>
    /\ scan_call' = NoScan
    /\ network_addr' = <<>>
    /\ gateways' = <<>>
    /\ hop_index' = 0
    /\ target_index' = 0
    /\ hosts_found' = 0

NoArgs == [addr |-> <<>>, community |-> <<>>]

\* the arguments of a call
Args(addr, community) == [addr |-> addr, community |-> community]

ResetCall ==
    /\ call_args' = NoArgs
    /\ result' = <<>>

ResetWalk ==
    /\ gateway' = <<>>
    /\ routers_to_query' = <<>>
    /\ routers_queried' = 0
    /\ comm' = 1
    /\ snmp_success' = 0
    /\ nexthops' = <<>>
    /\ visited' = <<>>
    /\ tried' = <<>>
    /\ answered' = FALSE
    /\ steps' = {}
    /\ report' = <<>>
    /\ scenario' = NoScenario

\* the entry of the log of queries for the command a query issued, none when
\* it issued no command
Logged(issued, found) ==
    IF issued = {} THEN <<>> ELSE <<[cmd |-> CHOOSE c \in issued : TRUE, found |-> found]>>

\* entry and step 1: reset, then get_default_gateway
FindGateway ==
    /\ pc \in EntryPoint
    /\ \E net \in Networks :
       \E out \in GatewayOutputs(net), garbage \in Uninitialised, sc \in ScenariosOf(net) :
          LET g == get_default_gateway(out, MAX_IP_LEN)
          IN  /\ network' = net
              /\ scenario' = sc
              /\ gateway' = IF g.written THEN g.text ELSE garbage
              /\ IF g.found
                 THEN /\ routers_to_query' = <<Take(g.text, MAX_IP_LEN - 1)>>
                      /\ discovered_hosts' = store_host(<<>>, g.text, 0)
                 ELSE /\ routers_to_query' = <<>>
                      /\ discovered_hosts' = <<>>
              /\ pc' = after_gateway(g.found)
    /\ routers_queried' = 0
    /\ comm' = 1
    /\ snmp_success' = 0
    /\ nexthops' = <<>>
    /\ visited' = <<>>
    /\ tried' = <<>>
    /\ answered' = FALSE
    /\ cmds' = {Cmd("ip route", "", <<>>, <<>>)}
    /\ steps' = {"gateway"}
    /\ report' = <<>>
    /\ ret' = Running
    /\ op' = "discover_automatic"
    /\ ResetScan
    /\ ResetCall
    /\ UNCHANGED writers

\* a walk whose flag tells whether the last interface query gave an interface
QueryInterfacesLastAnswer ==
    /\ pc = "walk"
    /\ \E out \in IfaceOutputs(current_router) :
          LET interfaces == discover_router_interfaces(current_router, communities[comm],
                                                       out, MAX_HOPS)
          IN  /\ tried' = (IF comm = 1 THEN <<>> ELSE tried) \o
                             Logged(snmp_command("ipAdEntAddr", current_router,
                                                 communities[comm]), Len(interfaces))
              /\ answered' = IF Len(interfaces) > 0 THEN TRUE
                             ELSE answered
              /\ IF Len(interfaces) > 0
                 THEN /\ snmp_success' = 1
                      /\ discovered_hosts' = add_interfaces(interfaces, discovered_hosts)
                      /\ pc' = "nexthop"
                      /\ UNCHANGED <<comm, routers_queried>>
                 ELSE /\ snmp_success' = 0
                      /\ UNCHANGED discovered_hosts
                      /\ IF comm < Len(communities)
                         THEN /\ comm' = comm + 1
                              /\ pc' = "walk"
                              /\ UNCHANGED routers_queried
                         ELSE /\ comm' = 1
                              /\ routers_queried' = routers_queried + 1
                              /\ pc' = after_visit(routers_queried + 1, routers_to_query)
    /\ visited' = IF comm = 1 THEN Append(visited, current_router) ELSE visited
    /\ cmds' = snmp_command("ipAdEntAddr", current_router, communities[comm])
    /\ steps' = steps \cup {"interfaces"}
    /\ UNCHANGED <<gateway, routers_to_query, nexthops, report, ret, network, scenario, op, scanVars, callVars, writers>>

\* a walk that is abandoned at the first router no community opens
QueryInterfacesAbandon ==
    /\ pc = "walk"
    /\ \E out \in IfaceOutputs(current_router) :
          LET interfaces == discover_router_interfaces(current_router, communities[comm],
                                                       out, MAX_HOPS)
          IN  /\ tried' = (IF comm = 1 THEN <<>> ELSE tried) \o
                             Logged(snmp_command("ipAdEntAddr", current_router,
                                                 communities[comm]), Len(interfaces))
              /\ answered' = IF Len(interfaces) > 0 THEN TRUE
                             ELSE answered
              /\ IF Len(interfaces) > 0
                 THEN /\ snmp_success' = 1
                      /\ discovered_hosts' = add_interfaces(interfaces, discovered_hosts)
                      /\ pc' = "nexthop"
                      /\ UNCHANGED <<comm, routers_queried>>
                 ELSE /\ UNCHANGED <<snmp_success, discovered_hosts>>
                      /\ IF comm < Len(communities)
                         THEN /\ comm' = comm + 1
                              /\ pc' = "walk"
                              /\ UNCHANGED routers_queried
                         ELSE /\ comm' = 1
                              /\ routers_queried' = routers_queried + 1
                              /\ pc' = "arp"
    /\ visited' = IF comm = 1 THEN Append(visited, current_router) ELSE visited
    /\ cmds' = snmp_command("ipAdEntAddr", current_router, communities[comm])
    /\ steps' = steps \cup {"interfaces"}
    /\ UNCHANGED <<gateway, routers_to_query, nexthops, report, ret, network, scenario, op, scanVars, callVars, writers>>

\* a pass of the communities loop that goes on to the next community after
\* one has given interfaces
QueryInterfacesNoStop ==
    /\ pc = "walk"
    /\ \E out \in IfaceOutputs(current_router) :
          LET interfaces == discover_router_interfaces(current_router, communities[comm],
                                                       out, MAX_HOPS)
          IN  /\ tried' = (IF comm = 1 THEN <<>> ELSE tried) \o
                             Logged(snmp_command("ipAdEntAddr", current_router,
                                                 communities[comm]), Len(interfaces))
              /\ answered' = IF Len(interfaces) > 0 THEN TRUE
                             ELSE answered
              /\ snmp_success' = IF Len(interfaces) > 0 THEN 1 ELSE snmp_success
              /\ discovered_hosts' = add_interfaces(interfaces, discovered_hosts)
              /\ IF comm < Len(communities)
                 THEN /\ comm' = comm + 1
                      /\ pc' = "walk"
                      /\ UNCHANGED routers_queried
                 ELSE /\ comm' = 1
                      /\ routers_queried' = routers_queried + 1
                      /\ pc' = after_visit(routers_queried + 1, routers_to_query)
    /\ visited' = IF comm = 1 THEN Append(visited, current_router) ELSE visited
    /\ cmds' = snmp_command("ipAdEntAddr", current_router, communities[comm])
    /\ steps' = steps \cup {"interfaces"}
    /\ UNCHANGED <<gateway, routers_to_query, nexthops, report, ret, network, scenario, op, scanVars, callVars, writers>>

\* one pass of the communities loop: discover_router_interfaces and, when it
\* finds interfaces, their insertion
QueryInterfaces ==
    /\ pc = "walk"
    /\ \E out \in IfaceOutputs(current_router) :
          LET interfaces == discover_router_interfaces(current_router, communities[comm],
                                                       out, MAX_HOPS)
          IN  /\ tried' = (IF comm = 1 THEN <<>> ELSE tried) \o
                             Logged(snmp_command("ipAdEntAddr", current_router,
                                                 communities[comm]), Len(interfaces))
              /\ answered' = IF Len(interfaces) > 0 THEN TRUE
                             ELSE answered
              /\ IF Len(interfaces) > 0
                 THEN /\ snmp_success' = 1
                      /\ discovered_hosts' = add_interfaces(interfaces, discovered_hosts)
                      /\ pc' = "nexthop"
                      /\ UNCHANGED <<comm, routers_queried>>
                 ELSE /\ UNCHANGED <<snmp_success, discovered_hosts>>
                      /\ IF comm < Len(communities)
                         THEN /\ comm' = comm + 1
                              /\ pc' = "walk"
                              /\ UNCHANGED routers_queried
                         ELSE /\ comm' = 1
                              /\ routers_queried' = routers_queried + 1
                              /\ pc' = after_visit(routers_queried + 1, routers_to_query)
    /\ visited' = IF comm = 1 THEN Append(visited, current_router) ELSE visited
    /\ cmds' = snmp_command("ipAdEntAddr", current_router, communities[comm])
    /\ steps' = steps \cup {"interfaces"}
    /\ UNCHANGED <<gateway, routers_to_query, nexthops, report, ret, network, scenario, op, scanVars, callVars, writers>>

\* discover_nexthop_routers with the working community and the loop over its result
QueryNextHops ==
    /\ pc = "nexthop"
    /\ \E out \in NextHopOutputs :
          LET list == discover_nexthop_routers(current_router, communities[comm],
                                               out, MAX_HOPS)
              added == add_nexthops(list, routers_to_query, discovered_hosts)
          IN  /\ nexthops' = list
              /\ tried' = tried \o Logged(snmp_command("ipRouteNextHop", current_router,
                                                        communities[comm]), Len(list))
              /\ routers_to_query' = added.to_query
              /\ discovered_hosts' = added.hosts
    /\ cmds' = snmp_command("ipRouteNextHop", current_router, communities[comm])
    /\ steps' = steps \cup {"nexthops"}
    /\ pc' = "rarp"
    /\ UNCHANGED <<gateway, routers_queried, comm, snmp_success, visited, answered, report, ret, network, scenario, op, scanVars, callVars, writers>>

\* try_snmp_community with the working community; the visit of the router ends
QueryRouterArp ==
    /\ pc = "rarp"
    /\ \E out \in RouterArpOutputs :
          LET after == try_snmp_community(current_router, communities[comm],
                                          out, discovered_hosts)
          IN  /\ discovered_hosts' = after
              /\ tried' = tried \o Logged(snmp_command("ipNetToMediaNetAddress",
                                                        current_router, communities[comm]),
                                           Len(after) - Len(discovered_hosts))
    /\ cmds' = snmp_command("ipNetToMediaNetAddress", current_router, communities[comm])
    /\ steps' = steps \cup {"router_arp"}
    /\ comm' = 1
    /\ routers_queried' = routers_queried + 1
    /\ nexthops' = <<>>
    /\ pc' = after_visit(routers_queried + 1, routers_to_query)
    /\ UNCHANGED <<gateway, routers_to_query, snmp_success, visited, answered, report,
                   ret, network, scenario, op, scanVars, callVars, writers>>

\* step 3 (label arp_fallback): the local ARP cache
LocalArpCache ==
    /\ pc = "arp"
    /\ \E out \in LocalArpOutputs :
          discovered_hosts' = IF out.ok
                              THEN automatic_arp_loop(out.lines, "", discovered_hosts)
                              ELSE discovered_hosts
    /\ cmds' = {Cmd("ip neigh", "", <<>>, <<>>)}
    /\ steps' = steps \cup {"local_arp"}
    /\ pc' = "conn"
    /\ UNCHANGED <<gateway, routers_to_query, routers_queried, comm, snmp_success,
                   nexthops, visited, tried, answered, report, ret, network, scenario, op, scanVars, callVars, writers>>

\* step 4: the active connections, then the result listing and the return
ActiveConnections ==
    /\ pc = "conn"
    /\ \E out \in ConnOutputs :
          LET hosts == IF out.ok THEN connections_loop(out.lines, discovered_hosts)
                       ELSE discovered_hosts
          IN  /\ discovered_hosts' = hosts
              /\ report' = IF total_hosts(hosts) > 0
                           THEN result_rows(hosts, gateway, snmp_success)
                           ELSE <<>>
              /\ ret' = total_hosts(hosts)
    /\ cmds' = {Cmd("ss", "", <<>>, <<>>)}
    /\ steps' = steps \cup {"connections"}
    /\ pc' = "done"
    /\ UNCHANGED <<gateway, routers_to_query, routers_queried, comm, snmp_success,
                   nexthops, visited, tried, answered, network, scenario, op, scanVars, callVars, writers>>

(***************************************************************************)
(* Probing: ping_host_system and scan_subnet                               *)
(***************************************************************************)
\* What one ping run gives: ok says whether popen started it, tenths is the
\* "time=" value of its output in tenths of a millisecond, -1 when no line
\* of the output has one.
Reply(tenths) == [ok |-> TRUE, tenths |-> tenths]

NoReply == [ok |-> TRUE, tenths |-> -1]

PingNotStarted == [ok |-> FALSE, tenths |-> -1]

\* the command ping_host_system hands to popen, if it gets that far
ping_command(ip_addr) ==
    IF validate_ip_string(ip_addr) THEN {Cmd("ping", "", <<>>, ip_addr)} ELSE {}

\* ping_host_system: response_time = (int)(time_ms + 0.5), at least 1
ping_host_system(ip_addr, reply) ==
    IF ~validate_ip_string(ip_addr) THEN -1
    ELSE IF ~reply.ok THEN -1
    ELSE IF reply.tenths < 0 THEN -1
    ELSE LET response_time == (reply.tenths + 5) \div 10
         IN  IF response_time < 1 THEN 1 ELSE response_time

LAN1 == FormatIp(<<192, 168, 1, 1>>)

LAN130 == FormatIp(<<192, 168, 1, 130>>)

LAN200 == FormatIp(<<192, 168, 1, 200>>)

\* Who answers a ping.  In "wan" every address does; in "lan" a few do.
PingReply(net, ip) ==
    IF net = "wan" THEN Reply(4)
    ELSE IF ip = H1 THEN Reply(3)
    ELSE IF ip = LAN1 THEN Reply(124)
    ELSE IF ip = LAN130 THEN Reply(125)
    ELSE IF ip = GW THEN Reply(15)
    ELSE IF ip = LAN200 THEN PingNotStarted
    ELSE NoReply

\* the least and the greatest value of an int (32 bits, two's complement)
INT_MIN == (-(2^30)) * 2

INT_MAX == (2^30 - 1) * 2 + 1

\* n - 2 as the machine computes it in an int: below INT_MIN it comes out
\* at the top of the range
minus_two(n) == IF n >= INT_MIN + 2 THEN n - 2 ELSE INT_MAX - (1 - (n - INT_MIN))

\* 1 << host_bits in int.  For host_bits = 31 the result is INT_MIN.  For
\* host_bits = 32 the shift count is the width of int and the result is
\* undefined: a build that takes the count modulo 32 gives 1, one that
\* shifts the bit out gives 0.
shift_one(host_bits) ==
    IF host_bits <= 30 THEN {2^host_bits}
    ELSE IF host_bits = 31 THEN {INT_MIN}
    ELSE {0, 1}

\* max_hosts without the "- 2" that leaves out network and broadcast address
max_hosts_all(shifted) == IF shifted > 254 THEN 254 ELSE shifted

\* max_hosts of scan_subnet: (1 << host_bits) - 2 as an int, at most 254;
\* shifted is the value of 1 << host_bits
max_hosts(shifted) ==
    LET hosts == minus_two(shifted)
    IN  IF hosts > 254 THEN 254 ELSE hosts

\* target_ip of iteration i
scan_target(net_octets, host_bits, i) ==
    FormatIp(<<net_octets[1],
               net_octets[2],
               IF host_bits > 8 THEN net_octets[3] + ((i - 1) \div 256) ELSE net_octets[3],
               IF host_bits > 8 THEN ((i - 1) % 256) + 1 ELSE i>>)

\* one pass of the loop that stores every address that answers, present or not
scan_step_unchecked(i, net_octets, host_bits, net, acc) ==
    IF Len(acc.hosts) >= MAX_DISCOVERED_HOSTS THEN acc
    ELSE LET target_ip == scan_target(net_octets, host_bits, i)
             response_time == ping_host_system(target_ip, PingReply(net, target_ip))
         IN  IF response_time > 0
             THEN [hosts |-> store_host(acc.hosts, target_ip, response_time),
                   probes |-> Append(acc.probes, target_ip),
                   hosts_found |-> acc.hosts_found + 1]
             ELSE [acc EXCEPT !.probes = Append(acc.probes, target_ip)]

\* one pass of the for loop of scan_subnet, iteration i.  acc: the registry,
\* the addresses for which a ping command was issued, hosts_found.  The
\* loop ends when the registry is full: no later pass changes anything.
scan_step(i, net_octets, host_bits, net, acc) ==
    IF Len(acc.hosts) >= MAX_DISCOVERED_HOSTS THEN acc
    ELSE LET target_ip == scan_target(net_octets, host_bits, i)
             response_time == ping_host_system(target_ip, PingReply(net, target_ip))
             pinged == IF ping_command(target_ip) # {}
                       THEN Append(acc.probes, target_ip)
                       ELSE acc.probes
         IN  IF response_time > 0 /\ ~already_found(acc.hosts, target_ip)
             THEN [hosts |-> store_host(acc.hosts, target_ip, response_time),
                   probes |-> pinged,
                   hosts_found |-> acc.hosts_found + 1]
             ELSE [acc EXCEPT !.probes = pinged]

\* the passes first .. last of the for loop, in order (the range is halved
\* to keep the evaluation shallow)
RECURSIVE scan_loop(_, _, _, _, _, _)
scan_loop(first, last, net_octets, host_bits, net, acc) ==
    IF first > last THEN acc
    ELSE IF first = last THEN scan_step(first, net_octets, host_bits, net, acc)
    ELSE LET mid == (first + last) \div 2
             half == scan_loop(first, mid, net_octets, host_bits, net, acc)
         IN  IF Len(half.hosts) >= MAX_DISCOVERED_HOSTS THEN half
             ELSE scan_loop(mid + 1, last, net_octets, host_bits, net, half)

\* scan_subnet in network net, entered with the registry hosts; shifted is
\* the value 1 << host_bits took
scan_subnet(addr, prefix_len, hosts, net, shifted) ==
    IF max_hosts(shifted) <= 0
    THEN [hosts |-> hosts, probes |-> <<>>, hosts_found |-> 0]
    ELSE scan_loop(1, max_hosts(shifted), parse_ip(addr), 32 - prefix_len, net,
                   [hosts |-> hosts, probes |-> <<>>, hosts_found |-> 0])

ScanCall(addr, prefix_len) == [network_addr |-> addr, prefix_len |-> prefix_len]

\* the ping commands of a scan
ping_commands(pinged) == UNION {ping_command(pinged[i]) : i \in 1..Len(pinged)}

(***************************************************************************)
(* discover_custom_subnet                                                  *)
(***************************************************************************)
\* strchr(s, '/'): the position of the first '/' of s at or after p, 0 for none
RECURSIVE FirstSlash(_, _)
FirstSlash(s, p) ==
    IF p > Len(s) THEN 0 ELSE IF s[p] = "/" THEN p ELSE FirstSlash(s, p + 1)

\* the low 32 bits of the value of the decimal digits s[p .. q-1], as the two
\* 16-bit halves <<high, low>>
RECURSIVE Low32(_, _, _)
Low32(s, p, q) ==
    IF q <= p THEN <<0, 0>>
    ELSE LET rest == Low32(s, p, q - 1)
             low == rest[2] * 10 + DigitVal(s[q - 1])
         IN  <<(rest[1] * 10 + low \div 65536) % 65536, low % 65536>>

\* prefix_len = (int)parsed_prefix: strtol gives a long, which has 64 bits in
\* this build, and the conversion to int keeps the low 32 bits as a signed
\* number.  The inputs of the model have at most 18 digits, which strtol
\* reads without reaching LONG_MAX.
strtol_int(s, p, q) ==
    LET halves == Low32(s, p, q)
    IN  IF halves[1] >= 32768 THEN (halves[1] - 65536) * 65536 + halves[2]
        ELSE halves[1] * 65536 + halves[2]

\* The parse of "network/prefix": strtol reads the digits after the slash
\* (the inputs of the model hold neither a sign nor a leading blank) and
\* must stop at the end of the string, a newline or a blank.  status is
\* "format", "range" or "ok".
parse_cidr(subnet_cidr) ==
    LET slash == FirstSlash(subnet_cidr, 1)
        endptr == DigitsEnd(subnet_cidr, slash + 1)
        prefix_len == strtol_int(subnet_cidr, slash + 1, endptr)
    IN  IF slash = 0
        THEN [status |-> "ok", network |-> Take(subnet_cidr, MAX_IP_LEN - 1),
              prefix_len |-> 24]
        ELSE IF endptr <= Len(subnet_cidr) /\ subnet_cidr[endptr] \notin {"\n", " "}
        THEN [status |-> "format", network |-> <<>>, prefix_len |-> 24]
        ELSE IF prefix_len < 16 \/ prefix_len > 30
        THEN [status |-> "range", network |-> <<>>, prefix_len |-> prefix_len]
        ELSE [status |-> "ok",
              network |-> Take(SubSeq(subnet_cidr, 1, slash - 1), MAX_IP_LEN - 1),
              prefix_len |-> prefix_len]

\* discover_custom_subnet in network net: the registry, the scan made, the
\* value returned
discover_custom_subnet(subnet_cidr, net) ==
    LET c == parse_cidr(subnet_cidr)
        scanned == scan_subnet(c.network, c.prefix_len, <<>>, net, 2^(32 - c.prefix_len))
    IN  IF c.status # "ok" \/ ~validate_ip_string(c.network)
        THEN [hosts |-> <<>>, probes |-> <<>>, scan_call |-> NoScan, hosts_found |-> 0,
              ret |-> -1]
        ELSE [hosts |-> scanned.hosts, probes |-> scanned.probes,
              scan_call |-> ScanCall(c.network, c.prefix_len),
              hosts_found |-> scanned.hosts_found,
              ret |-> scanned.hosts_found]

\* "4294967320", the number 2^32 + 24
WidePrefix == <<"4", "2", "9", "4", "9", "6", "7", "3", "2", "0">>

\* what the user may type: a network with a prefix length (every length
\* from 15 to 31 for one network, some for the others), a network alone,
\* and texts that are no CIDR
CidrInputs ==
    {FormatIp(<<10, 1, 0, 0>>) \o <<"/">> \o Dec(p) : p \in 15..31}
        \cup {FormatIp(<<192, 168, 1, 128>>) \o <<"/">> \o Dec(p) : p \in {24, 25, 26, 30}}
        \cup {FormatIp(<<192, 168, 1, 4>>) \o <<"/">> \o Dec(p) : p \in {29, 30}}
        \cup {FormatIp(<<192, 168, 1, 0>>) \o <<"/">> \o Dec(p) : p \in {16, 24, 25}}
        \cup {FormatIp(<<172, 16, 4, 0>>) \o <<"/">> \o Dec(p) : p \in {22, 23}}
        \cup {FormatIp(<<192, 168, 1, 0>>), FormatIp(<<10, 1, 0, 0>>)}
        \cup {FormatIp(<<192, 168, 1, 0>>) \o <<"/", "2", "x">>,
              FormatIp(<<192, 168, 1, 0>>) \o <<"/">>,
              BAD \o <<"/", "2", "4">>, BAD,
              FormatIp(<<10, 1, 0, 0>>) \o <<"/", "2", "4", " ", "x">>,
              FormatIp(<<10, 1, 0, 0>>) \o <<"/">> \o WidePrefix}

\* the networks a scan may take place in
ScanNetworks == {"lan", "wan"}

\* entry: "discovered_count = 0"
CustomSubnetEnter ==
    /\ pc \in EntryPoint
    /\ pc' = "custom"
    /\ op' = "discover_custom_subnet"
    /\ discovered_hosts' = <<>>
    /\ cmds' = {}
    /\ ret' = Running
    /\ network' = "lan"
    /\ ResetScan
    /\ ResetCall
    /\ UNCHANGED writers
    /\ ResetWalk

\* the parse of the argument, the scan and the return
DiscoverCustomSubnet ==
    /\ pc = "custom"
    /\ \E net \in ScanNetworks, subnet_cidr \in CidrInputs :
       \E r \in {discover_custom_subnet(subnet_cidr, net)} :
          /\ network' = net
          /\ discovered_hosts' = r.hosts
          /\ probes' = r.probes
          /\ scan_call' = r.scan_call
          /\ hosts_found' = r.hosts_found
          /\ cmds' = ping_commands(r.probes)
          /\ ret' = r.ret
          /\ call_args' = Args(subnet_cidr, <<>>)
    /\ pc' = "returned"
    /\ UNCHANGED <<op, network_addr, gateways, hop_index, target_index, walkVars, result, writers>>

(***************************************************************************)
(* traceroute_discover and discover_multi_subnet                           *)
(***************************************************************************)
\* A line of traceroute output: hop says whether it starts with a hop
\* number, tok is the token after the number ("*" for a hop that timed out).
HopLine(tok) == [hop |-> TRUE, tok |-> tok]

StarLine == HopLine(<<"*">>)

TraceHeader == [hop |-> FALSE, tok |-> <<>>]

\* an fgets loop that goes on after MAX_HOPS gateways
RECURSIVE trace_loop_all(_, _)
trace_loop_all(lines, list) ==
    IF lines = <<>> THEN list
    ELSE LET line == Head(lines)
             ip == Take(line.tok, 15)
         IN  IF line.hop /\ line.tok # <<>> /\ validate_ip_string(ip)
             THEN trace_loop_all(Tail(lines), Append(list, Take(ip, MAX_IP_LEN - 1)))
             ELSE trace_loop_all(Tail(lines), list)

\* the fgets loop of traceroute_discover
RECURSIVE trace_loop(_, _)
trace_loop(lines, list) ==
    IF lines = <<>> \/ Len(list) >= MAX_HOPS THEN list
    ELSE LET line == Head(lines)
             ip == Take(line.tok, 15)
         IN  IF line.hop /\ line.tok # <<>> /\ validate_ip_string(ip)
             THEN trace_loop(Tail(lines), Append(list, Take(ip, MAX_IP_LEN - 1)))
             ELSE trace_loop(Tail(lines), list)

\* the command traceroute_discover hands to popen, if it gets that far
traceroute_command(target_ip) ==
    IF validate_ip_string(target_ip)
    THEN {Cmd("traceroute", "", <<>>, target_ip)}
    ELSE {}

\* traceroute_discover: the value returned and the gateways written
traceroute_discover(target_ip, out) ==
    IF ~validate_ip_string(target_ip) THEN [ret |-> -1, gateways |-> <<>>]
    ELSE IF ~out.ok THEN [ret |-> -1, gateways |-> <<>>]
    ELSE LET list == trace_loop(out.lines, <<>>)
         IN  [ret |-> Len(list), gateways |-> list]

\* a & b for 0 <= a, b < 256
RECURSIVE BitAnd(_, _)
BitAnd(a, b) ==
    IF a = 0 \/ b = 0 THEN 0
    ELSE (a % 2) * (b % 2) + 2 * BitAnd(a \div 2, b \div 2)

\* target_ip of iteration i in discover_network, which adds the host index to
\* the final octet of the network address
discover_network_target(net_octets, mask_octets, host_bits, i) ==
    FormatIp(<<net_octets[1],
               net_octets[2],
               IF host_bits > 8 THEN net_octets[3] + ((i - 1) \div 256) ELSE net_octets[3],
               IF host_bits > 8
               THEN BitAnd(net_octets[4], mask_octets[4]) + ((i - 1) % 256) + 1
               ELSE BitAnd(net_octets[4], mask_octets[4]) + i>>)

\* get_local_network_info for the first IPv4 interface that is not lo: what
\* inet_ntop writes for its address, its mask and their conjunction
get_local_network_info(info) ==
    [ret |-> IF info.ok THEN 0 ELSE -1,
     local_ip |-> FormatIp(info.addr),
     netmask |-> FormatIp(info.mask),
     network_addr |-> FormatIp([k \in 1..4 |-> BitAnd(info.addr[k], info.mask[k])])]

\* mask_val <<= 1 on the four bytes of the unsigned int, highest first
shift_left(b) ==
    <<((b[1] * 2) % 256) + (b[2] \div 128), ((b[2] * 2) % 256) + (b[3] \div 128),
      ((b[3] * 2) % 256) + (b[4] \div 128), (b[4] * 2) % 256>>

\* the while loop "while (mask_val & 0x80000000) { local_prefix++; mask_val <<= 1; }"
RECURSIVE leading_ones(_)
leading_ones(mask_val) ==
    IF mask_val[1] >= 128 THEN 1 + leading_ones(shift_left(mask_val)) ELSE 0

\* local_prefix of discover_multi_subnet: mask_val holds the four octets of
\* the mask, highest first
local_prefix(netmask) == leading_ones(parse_ip(netmask))

common_gateways == <<PUB, FormatIp(<<1, 1, 1, 1>>)>>

\* the test of discover_multi_subnet for a hop in a private range
gw_is_private(gw_octets) ==
    \/ gw_octets[1] = 10
    \/ (gw_octets[1] = 172 /\ gw_octets[2] >= 16 /\ gw_octets[2] <= 31)
    \/ (gw_octets[1] = 192 /\ gw_octets[2] = 168)

\* gw_network: the /24 of a hop
gw_network(gw_octets) == FormatIp(<<gw_octets[1], gw_octets[2], gw_octets[3], 0>>)

\* whether the loop over the gateways scans for the hop gw: a private hop
\* outside the /24 of the local network
hop_is_scanned(gw, local_network) ==
    LET gw_octets == parse_ip(gw)
        local_octets == parse_ip(local_network)
    IN  /\ gw_is_private(gw_octets)
        /\ ~(/\ local_octets[1] = gw_octets[1]
             /\ local_octets[2] = gw_octets[2]
             /\ local_octets[3] = gw_octets[3])

\* the number of hops the loop "for (j = 0; j < gateway_count && j < 5; j++)" takes
hops_considered(list) == IF Len(list) < 5 THEN Len(list) ELSE 5

NoInterface == [ok |-> FALSE, addr |-> <<0, 0, 0, 0>>, mask |-> <<0, 0, 0, 0>>]

Interface(addr, mask) == [ok |-> TRUE, addr |-> addr, mask |-> mask]

\* the mask of prefix length p, from 0 to 32
PrefixMask(p) ==
    [k \in 1..4 |->
        LET ones == IF p - 8 * (k - 1) < 0 THEN 0
                    ELSE IF p - 8 * (k - 1) > 8 THEN 8
                    ELSE p - 8 * (k - 1)
        IN  256 - 2^(8 - ones)]

\* the interface of the machine: in "lan" one of two addresses under a /16,
\* /24, /25 or /30 mask, 192.168.1.130 under the mask of any prefix length,
\* or none; in "wan" 10.1.0.7/24
LocalInterfaces(net) ==
    IF net = "wan" THEN {Interface(<<10, 1, 0, 7>>, <<255, 255, 255, 0>>)}
    ELSE {NoInterface,
          Interface(<<192, 168, 1, 10>>, <<255, 255, 0, 0>>),
          Interface(<<192, 168, 1, 10>>, <<255, 255, 255, 0>>),
          Interface(<<192, 168, 1, 130>>, <<255, 255, 255, 128>>),
          Interface(<<192, 168, 1, 130>>, <<255, 255, 255, 252>>)}
         \cup {Interface(<<192, 168, 1, 130>>, PrefixMask(p)) : p \in 0..32}

TraceLines ==
    {HopLine(GW), HopLine(R2), HopLine(LAN1), HopLine(R3), HopLine(PUB), StarLine,
     TraceHeader}

LanTraceOutputs == {NotStarted} \cup {Output(l) : l \in SeqUpTo(TraceLines, MaxLines)}

\* the path through the large network: routers in six further /24 networks
WanPath ==
    <<TraceHeader, HopLine(FormatIp(<<10, 1, 1, 1>>)), StarLine>> \o
    [k \in 1..5 |-> HopLine(FormatIp(<<10, 1, k + 1, 1>>))] \o <<HopLine(PUB)>>

TraceOutputs ==
    IF network = "lan" THEN LanTraceOutputs ELSE {Output(WanPath), Output(<<>>)}

\* entry: "discovered_count = 0"
MultiSubnetEnter ==
    /\ pc \in EntryPoint
    /\ pc' = "local"
    /\ op' = "discover_multi_subnet"
    /\ discovered_hosts' = <<>>
    /\ cmds' = {}
    /\ ret' = Running
    /\ network' = "lan"
    /\ ResetScan
    /\ ResetCall
    /\ UNCHANGED writers
    /\ ResetWalk

\* get_local_network_info and step 1: the scan of the local subnet
MultiSubnetLocal ==
    /\ pc = "local"
    /\ \E net \in ScanNetworks :
       \E iface \in LocalInterfaces(net) :
       \E info \in {get_local_network_info(iface)} :
          /\ network' = net
          /\ IF info.ret # 0
             THEN /\ ret' = -1
                  /\ pc' = "returned"
                  /\ cmds' = {}
                  /\ UNCHANGED <<discovered_hosts, probes, scan_call, network_addr,
                                 target_index, hosts_found>>
             ELSE \E shifted \in shift_one(32 - local_prefix(info.netmask)) :
                  \E scanned \in {scan_subnet(info.network_addr,
                                               local_prefix(info.netmask), <<>>, net,
                                               shifted)} :
                  /\ discovered_hosts' = scanned.hosts
                  /\ probes' = scanned.probes
                  /\ scan_call' = ScanCall(info.network_addr, local_prefix(info.netmask))
                  /\ hosts_found' = scanned.hosts_found
                  /\ network_addr' = info.network_addr
                  /\ target_index' = 1
                  /\ cmds' = ping_commands(scanned.probes)
                  /\ pc' = "trace"
                  /\ UNCHANGED ret
    /\ UNCHANGED <<op, gateways, hop_index, walkVars, callVars, writers>>

\* step 2: traceroute_discover to common_gateways[target_index]
MultiSubnetTrace ==
    /\ pc = "trace"
    /\ \E out \in TraceOutputs :
          LET traced == traceroute_discover(common_gateways[target_index], out)
          IN  /\ gateways' = traced.gateways
              /\ IF traced.ret > 0
                 THEN /\ pc' = "hops"
                      /\ UNCHANGED <<target_index, ret>>
                 ELSE IF target_index < Len(common_gateways)
                 THEN /\ pc' = "trace"
                      /\ target_index' = target_index + 1
                      /\ UNCHANGED ret
                 ELSE /\ pc' = "returned"
                      /\ ret' = discovered_count
                      /\ UNCHANGED target_index
    /\ cmds' = traceroute_command(common_gateways[target_index])
    /\ hop_index' = 0
    /\ probes' = <<>>
    /\ scan_call' = NoScan
    /\ hosts_found' = 0
    /\ UNCHANGED <<discovered_hosts, network, op, network_addr, walkVars, callVars, writers>>

\* step 3: one pass of the loop over the gateways
MultiSubnetHop ==
    /\ pc = "hops"
    /\ LET gw == gateways[hop_index + 1]
           subnet == gw_network(parse_ip(gw))
           last == hop_index + 1 >= hops_considered(gateways)
       IN  /\ IF hop_is_scanned(gw, network_addr)
              THEN \E scanned \in {scan_subnet(subnet, 24, discovered_hosts, network, 2^8)} :
                   /\ discovered_hosts' = scanned.hosts
                   /\ probes' = scanned.probes
                   /\ scan_call' = ScanCall(subnet, 24)
                   /\ hosts_found' = scanned.hosts_found
                   /\ cmds' = ping_commands(scanned.probes)
                   /\ ret' = IF last THEN Len(scanned.hosts) ELSE ret
              ELSE /\ probes' = <<>>
                   /\ scan_call' = NoScan
                   /\ hosts_found' = 0
                   /\ cmds' = {}
                   /\ ret' = IF last THEN discovered_count ELSE ret
                   /\ UNCHANGED discovered_hosts
           /\ pc' = IF last THEN "returned" ELSE "hops"
    /\ hop_index' = hop_index + 1
    /\ UNCHANGED <<network, op, network_addr, gateways, target_index, walkVars, callVars, writers>>

(***************************************************************************)
(* Calls of one query function with arguments of the caller's choice.      *)
(* None of them resets the registry: a call works on the registry earlier  *)
(* calls have left behind.                                                 *)
(***************************************************************************)
\* discover_snmp_arp checks the community itself and lets the empty one pass
snmp_arp_inputs_valid(router_ip, community) ==
    /\ validate_ip_string(router_ip)
    /\ \A i \in 1..Len(community) : community[i] \in CommunityChars

\* the snmpwalk command discover_snmp_arp hands to popen, if it gets that far
snmp_arp_command(router_ip, community) ==
    IF snmp_arp_inputs_valid(router_ip, community)
    THEN {Cmd("snmpwalk", "ipNetToMediaNetAddress", community, router_ip)}
    ELSE {}

\* discover_snmp_arp: the registry after the call and the value returned
discover_snmp_arp(router_ip, community, out, hosts) ==
    IF ~snmp_arp_inputs_valid(router_ip, community) THEN [hosts |-> hosts, ret |-> -1]
    ELSE IF ~out.ok THEN [hosts |-> hosts, ret |-> -1]
    ELSE LET after == snmp_arp_loop(out.lines, hosts)
         IN  [hosts |-> after, ret |-> Len(after) - Len(hosts)]

\* the address arguments offered to a call
AddressInputs == {GW, BAD, TUN, <<>>}

\* the community arguments offered to a call
CommunityInputs == {PUBLIC, <<"n", "-", "_", "1", "Z">>, <<"a", ";", "b">>, <<>>}

\* what snmpwalk prints for a call
CallSnmpOutputs ==
    {NotStarted, Output(<<Ln(H1), Ln(BAD)>>), Output(<<Ln(R2), Ln(H1), Ln(R2)>>)}

\* a path of more than MAX_HOPS hops, two of which did not answer
LongPath ==
    [k \in 1..(FanSize + 3) |->
        IF k = 1 THEN TraceHeader
        ELSE IF k \in {4, 7} THEN StarLine
        ELSE HopLine(FanAddr(k))]

\* what traceroute prints for a call
CallTraceOutputs ==
    {NotStarted, Output(<<TraceHeader, HopLine(GW), StarLine, HopLine(PUB)>>),
     Output(LongPath)}

\* the arguments of a call of traceroute_discover and what the trace printed
TraceArgs(target_ip, out) == [addr |-> target_ip, community |-> <<>>, trace_out |-> out]

\* a call may follow start-up or the return of an earlier call
CallPoint == {"idle", "returned"}

\* the part of a call every function shares: it runs to its return
CallReturns(name, args) ==
    /\ pc \in CallPoint
    /\ pc' = "returned"
    /\ op' = name
    /\ call_args' = args
    /\ ResetScan
    /\ ResetWalk
    /\ UNCHANGED writers

CallPingHostSystem ==
    \E ip_addr \in AddressInputs, net \in ScanNetworks :
       /\ CallReturns("ping_host_system", Args(ip_addr, <<>>))
       /\ network' = net
       /\ cmds' = ping_command(ip_addr)
       /\ ret' = ping_host_system(ip_addr, PingReply(net, ip_addr))
       /\ result' = <<>>
       /\ UNCHANGED discovered_hosts

CallTracerouteDiscover ==
    \E target_ip \in AddressInputs, out \in CallTraceOutputs :
       LET r == traceroute_discover(target_ip, out)
       IN  /\ CallReturns("traceroute_discover", TraceArgs(target_ip, out))
           /\ network' = "lan"
           /\ cmds' = traceroute_command(target_ip)
           /\ ret' = r.ret
           /\ result' = r.gateways
           /\ UNCHANGED discovered_hosts

CallRouterInterfaces ==
    \E router_ip \in AddressInputs, community \in CommunityInputs, out \in CallSnmpOutputs :
       LET interfaces == discover_router_interfaces(router_ip, community, out, MAX_HOPS)
       IN  /\ CallReturns("discover_router_interfaces", Args(router_ip, community))
           /\ network' = "lan"
           /\ cmds' = snmp_command("ipAdEntAddr", router_ip, community)
           /\ ret' = Len(interfaces)
           /\ result' = interfaces
           /\ UNCHANGED discovered_hosts

CallNextHopRouters ==
    \E router_ip \in AddressInputs, community \in CommunityInputs, out \in CallSnmpOutputs :
       LET list == discover_nexthop_routers(router_ip, community, out, MAX_HOPS)
       IN  /\ CallReturns("discover_nexthop_routers", Args(router_ip, community))
           /\ network' = "lan"
           /\ cmds' = snmp_command("ipRouteNextHop", router_ip, community)
           /\ ret' = Len(list)
           /\ result' = list
           /\ UNCHANGED discovered_hosts

CallTrySnmpCommunity ==
    \E router_ip \in AddressInputs, community \in CommunityInputs, out \in CallSnmpOutputs :
       LET after == try_snmp_community(router_ip, community, out, discovered_hosts)
       IN  /\ CallReturns("try_snmp_community", Args(router_ip, community))
           /\ network' = "lan"
           /\ cmds' = snmp_command("ipNetToMediaNetAddress", router_ip, community)
           /\ ret' = Len(after) - Len(discovered_hosts)
           /\ result' = <<>>
           /\ discovered_hosts' = after

CallDiscoverSnmpArp ==
    \E router_ip \in AddressInputs, community \in CommunityInputs, out \in CallSnmpOutputs :
       LET r == discover_snmp_arp(router_ip, community, out, discovered_hosts)
       IN  /\ CallReturns("discover_snmp_arp", Args(router_ip, community))
           /\ network' = "lan"
           /\ cmds' = snmp_arp_command(router_ip, community)
           /\ ret' = r.ret
           /\ result' = <<>>
           /\ discovered_hosts' = r.hosts

(***************************************************************************)
(* The standalone passive collectors: discover_arp_cache and               *)
(* discover_efficient                                                      *)
(***************************************************************************)
\* the body of the fgets loop of discover_arp_cache for one line: the registry
\* after it.  state is declared inside the loop, so every line starts with an
\* empty state; an accepted address is stored without a look at the entries
\* already there.
arp_cache_step(line, hosts) ==
    LET state == IF line.has_state THEN line.state ELSE ""
        accept == IF matches_neigh(line)
                  THEN validate_ip_string(line.ip) /\ state # "FAILED"
                  ELSE /\ matches_arp(line)
                       /\ validate_ip_string(line.ip)
                       /\ line.mac # "<incomplete>"
    IN  IF accept THEN store_host(hosts, line.ip, 0) ELSE hosts

\* the fgets loop of discover_arp_cache: the registry after it.  The lines are
\* taken in order, the first half before the second; the loop ends with the
\* lines or with a full registry.
RECURSIVE arp_cache_loop(_, _)
arp_cache_loop(lines, hosts) ==
    IF lines = <<>> \/ Len(hosts) >= MAX_DISCOVERED_HOSTS THEN hosts
    ELSE IF Len(lines) = 1 THEN arp_cache_step(lines[1], hosts)
    ELSE LET mid == Len(lines) \div 2
         IN  arp_cache_loop(SubSeq(lines, mid + 1, Len(lines)),
                            arp_cache_loop(SubSeq(lines, 1, mid), hosts))

\* discover_arp_cache: discovered_count = 0, then the loop; -1 when popen fails
discover_arp_cache(out) ==
    IF ~out.ok THEN [hosts |-> <<>>, ret |-> -1]
    ELSE LET after == arp_cache_loop(out.lines, <<>>)
         IN  [hosts |-> after, ret |-> Len(after)]

\* add_gateway that stores the gateway only in a registry that is still empty
add_gateway_first(out, hosts) ==
    LET g == get_default_gateway(out, MAX_IP_LEN)
    IN  IF g.found /\ hosts = <<>>
        THEN store_host(hosts, g.text, 0)
        ELSE hosts

\* step 3 of discover_efficient: the gateway, stored if it is a valid address
\* the registry does not hold
add_gateway(out, hosts) ==
    LET g == get_default_gateway(out, MAX_IP_LEN)
    IN  IF g.found /\ ~already_found(hosts, g.text)
        THEN store_host(hosts, g.text, 0)
        ELSE hosts

\* discover_efficient: the ARP cache, the active connections, the gateway
discover_efficient(arp_out, conn_out, gateway_out) ==
    LET cached == discover_arp_cache(arp_out).hosts
        connected == IF conn_out.ok THEN connections_loop(conn_out.lines, cached)
                     ELSE cached
        after == add_gateway(gateway_out, connected)
    IN  [hosts |-> after, ret |-> Len(after)]

\* how a run of discover_efficient that left the registry hosts ends.  Step 3
\* stores the gateway at discovered_hosts[discovered_count] without comparing
\* discovered_count with MAX_DISCOVERED_HOSTS: with a full registry the write
\* goes past the array, where discovered_count itself may lie, and the run
\* either returns with the entry behind the array or is ended by a fault.
efficient_ends(hosts) ==
    IF Len(hosts) > MAX_DISCOVERED_HOSTS THEN {"returned", "fault"} ELSE {"returned"}

\* a neighbour of the crowded cache
CacheAddr(k) == FormatIp(<<10, 9, k \div 250, (k % 250) + 1>>)

\* an ARP cache with as many resolved neighbours as the registry has entries
FullCache == [k \in 1..MAX_DISCOVERED_HOSTS |-> NeighLine(CacheAddr(k), "aa:ff", "REACHABLE")]

\* ARP caches beside those of LanLocalArpOutputs: one address on two
\* interfaces, a failed entry before one without a state, arp -a lines
\* before a line of neither format
CacheOutputs ==
    {NotStarted,
     Output(<<>>),
     Output(<<NeighLine(H1, "aa:bb", "REACHABLE")>>),
     Output(<<NeighLine(H1, "aa:bb", "REACHABLE"), NeighLine(H1, "aa:bb", "STALE")>>),
     Output(<<NeighLine(R3, "aa:cc", "FAILED"), NeighLineNoState(GW, "aa:dd")>>),
     Output(<<ArpLine(PUB, "aa:ee"), ArpLine(R2, "<incomplete>"), JunkLine>>)}

\* the ARP caches a run of a passive entry point may read.  Both entry points
\* empty the registry first, so what a run leaves does not depend on the run
\* before it; the crowded cache is read by the run that follows start-up.
CachesAt(point) ==
    IF point = "idle" THEN CacheOutputs \cup {Output(FullCache)} ELSE CacheOutputs

\* the local resolver, an address of 127.0.0.0/8 other than 127.0.0.1
RESOLVER == FormatIp(<<127, 0, 0, 53>>)

\* what "ss -tn" prints for discover_efficient and discover_netstat
EfficientConnOutputs ==
    {NotStarted,
     Output(<<ConnLine(H1 \o Port)>>),
     Output(<<ConnLine(v4mapped \o PUB \o Port), ConnLine(localhost \o Port),
              ConnLine(R2 \o Port)>>),
     Output(<<ConnLine(v4mapped \o localhost \o Port), ConnLine(RESOLVER \o Port)>>)}

\* what the gateway command prints for discover_efficient
EfficientGatewayOutputs == {NotStarted, Output(<<>>), Output(<<GW>>), Output(<<H1>>)}

\* what a run of the passive collectors read, kept beside the arguments
Collected(arp_out, conn_out, gateway_out) ==
    [addr |-> <<>>, community |-> <<>>,
     arp_out |-> arp_out, conn_out |-> conn_out, gateway_out |-> gateway_out]

DiscoverArpCache ==
    \E out \in LanLocalArpOutputs \cup CachesAt(pc) :
       LET r == discover_arp_cache(out)
       IN  /\ CallReturns("discover_arp_cache", Collected(out, NotStarted, NotStarted))
           /\ network' = "lan"
           /\ cmds' = {Cmd("ip neigh", "", <<>>, <<>>)}
           /\ ret' = r.ret
           /\ result' = <<>>
           /\ discovered_hosts' = r.hosts

\* discover_netstat: discovered_count = 0, then the connection loop; -1 when
\* popen fails
discover_netstat(out) ==
    IF ~out.ok THEN [hosts |-> <<>>, ret |-> -1]
    ELSE LET after == connections_loop(out.lines, <<>>)
         IN  [hosts |-> after, ret |-> Len(after)]

DiscoverNetstat ==
    \E out \in EfficientConnOutputs :
       LET r == discover_netstat(out)
       IN  /\ CallReturns("discover_netstat", Collected(NotStarted, out, NotStarted))
           /\ network' = "lan"
           /\ cmds' = {Cmd("ss", "", <<>>, <<>>)}
           /\ ret' = r.ret
           /\ result' = <<>>
           /\ discovered_hosts' = r.hosts

DiscoverEfficient ==
    \E arp_out \in CachesAt(pc), conn_out \in EfficientConnOutputs,
       gateway_out \in EfficientGatewayOutputs :
       LET r == discover_efficient(arp_out, conn_out, gateway_out)
       IN  \E end \in efficient_ends(r.hosts) :
              /\ pc \in CallPoint
              /\ pc' = end
              /\ op' = "discover_efficient"
              /\ call_args' = Collected(arp_out, conn_out, gateway_out)
              /\ ResetScan
              /\ ResetWalk
              /\ UNCHANGED writers
              /\ network' = "lan"
              /\ cmds' = {Cmd("ip neigh", "", <<>>, <<>>), Cmd("ss", "", <<>>, <<>>),
                          Cmd("ip route", "", <<>>, <<>>)}
              /\ ret' = IF end = "returned" THEN r.ret ELSE Running
              /\ result' = <<>>
              /\ discovered_hosts' = r.hosts

(***************************************************************************)
(* Two callers in the body of the loop of scan_subnet at the same time.    *)
(* The registry is a static array with a static count and the source       *)
(* takes no lock: the presence check and the insertion are separate        *)
(* statements, and the other caller may run between them.  The insertion   *)
(* (the four assignments and discovered_count++) is taken as one step.     *)
(***************************************************************************)
Writers == {1, 2}

\* the most entries the two callers store
MaxWrites == 3

Idle == [at |-> "idle", target_ip |-> <<>>, response_time |-> 0]

\* the addresses the callers probe
WriterTargets == {H1, LAN1}

\* "int response_time = ping_host_system(target_ip); if (response_time > 0)"
WriterProbe(w) ==
    /\ writers[w].at = "idle"
    /\ Len(discovered_hosts) < MaxWrites
    /\ \E target_ip \in WriterTargets :
          LET response_time == ping_host_system(target_ip, PingReply("lan", target_ip))
          IN  /\ response_time > 0
              /\ writers' = [writers EXCEPT ![w] = [at |-> "check", target_ip |-> target_ip,
                                                    response_time |-> response_time]]
    /\ UNCHANGED <<discovered_hosts, pc, cmds, ret, network, op, walkVars, scanVars,
                   call_args, result>>

\* the loop "for (j = 0; j < discovered_count; j++)" that sets already_found
WriterCheck(w) ==
    /\ writers[w].at = "check"
    /\ writers' = [writers EXCEPT ![w] =
                      IF already_found(discovered_hosts, writers[w].target_ip)
                      THEN Idle
                      ELSE [writers[w] EXCEPT !.at = "insert"]]
    /\ UNCHANGED <<discovered_hosts, pc, cmds, ret, network, op, walkVars, scanVars,
                   call_args, result>>

\* "if (!already_found)": the write of discovered_hosts[discovered_count] and
\* discovered_count++
WriterInsert(w) ==
    /\ writers[w].at = "insert"
    /\ discovered_hosts' = store_host(discovered_hosts, writers[w].target_ip,
                                      writers[w].response_time)
    /\ writers' = [writers EXCEPT ![w] = Idle]
    /\ UNCHANGED <<pc, cmds, ret, network, op, walkVars, scanVars, call_args, result>>

Init ==
    /\ discovered_hosts = <<>>
    /\ pc = "idle"
    /\ gateway = <<>>
    /\ routers_to_query = <<>>
    /\ routers_queried = 0
    /\ comm = 1
    /\ snmp_success = 0
    /\ nexthops = <<>>
    /\ visited = <<>>
    /\ tried = <<>>
    /\ answered = FALSE
    /\ cmds = {}
    /\ steps = {}
    /\ report = <<>>
    /\ ret = Running
    /\ probes = <<>>
    /\ network = "lan"
    /\ scenario = NoScenario
    /\ op = "none"
    /\ scan_call = NoScan
    /\ network_addr = <<>>
    /\ gateways = <<>>
    /\ hop_index = 0
    /\ target_index = 0
    /\ hosts_found = 0
    /\ call_args = NoArgs
    /\ result = <<>>
    /\ writers = [w \in Writers |-> Idle]

Next ==
    \/ FindGateway
    \/ QueryInterfaces
    \/ QueryNextHops
    \/ QueryRouterArp
    \/ LocalArpCache
    \/ ActiveConnections

Spec == Init /\ [][Next]_vars

\* the networks whose routers have short tables
ShortTables == network # "crowd"

\* discover_automatic is one sequential function and every query of the walk
\* runs under `timeout`, so a walk step that can be taken is taken.  The
\* condition is written for the networks with short tables; on the crowded
\* one the walk is followed by its measure (WalkMeasure).
SpecWalk ==
    Init /\ [][Next]_vars
         /\ WF_vars(ShortTables /\ QueryInterfaces)
         /\ WF_vars(ShortTables /\ QueryNextHops)
         /\ WF_vars(ShortTables /\ QueryRouterArp)

\* the scanning entry points
NextScan ==
    \/ CustomSubnetEnter
    \/ DiscoverCustomSubnet
    \/ MultiSubnetEnter
    \/ MultiSubnetLocal
    \/ MultiSubnetTrace
    \/ MultiSubnetHop

SpecScan == Init /\ [][NextScan]_vars

\* calls of the single query functions
NextCalls ==
    \/ CallPingHostSystem
    \/ CallTracerouteDiscover
    \/ CallRouterInterfaces
    \/ CallNextHopRouters
    \/ CallTrySnmpCommunity
    \/ CallDiscoverSnmpArp

\* discover_automatic and calls of the single query functions
SpecCalls == Init /\ [][Next \/ NextCalls]_vars

\* runs of the entry points netmon.h declares, one after another
NextRuns ==
    \/ Next
    \/ CallDiscoverSnmpArp
    \/ DiscoverArpCache
    \/ DiscoverNetstat
    \/ DiscoverEfficient

SpecRuns == Init /\ [][NextRuns]_vars

\* two callers of the loop body of scan_subnet, interleaved
NextWriters == \E w \in Writers : WriterProbe(w) \/ WriterCheck(w) \/ WriterInsert(w)

SpecWriters == Init /\ [][NextWriters]_vars

(***************************************************************************)
(* Properties of discover_automatic                                        *)
(***************************************************************************)
\* the addresses of the registry, in order
Addresses == [i \in 1..Len(discovered_hosts) |-> discovered_hosts[i].ip_address]

Distinct(list) == \A i, j \in 1..Len(list) : i # j => list[i] # list[j]

Range(list) == {list[i] : i \in 1..Len(list)}

\* an address text inside 10.0.0.0/8, 172.16.0.0/12 or 192.168.0.0/16
InPrivateRange(ip) ==
    LET o == parse_ip(ip)
    IN  /\ Len(o) = 4
        /\ \/ o[1] = 10
           \/ o[1] = 172 /\ o[2] \in 16..31
           \/ o[1] = 192 /\ o[2] = 168

\* discover_automatic found a gateway in this run: the walk was seeded
GatewayDetected == routers_to_query # <<>>

\* C1: at every point of a discover_automatic run, whatever the gateway
\* lookup, the routers, the ARP cache and the connection table print, no two
\* entries of the registry hold the same address.
C1_NoDuplicateAddress == Distinct(Addresses)

\* C2: the walk visits no router twice and never more than MAX_HOPS routers,
\* whatever next-hop lists the routers report (lists that name routers
\* already visited included).
C2_NoRouterVisitedTwice ==
    /\ Distinct(visited)
    /\ Len(visited) <= MAX_HOPS
    /\ routers_queried <= MAX_HOPS
    /\ Len(routers_to_query) <= MAX_HOPS

\* a run that visited MAX_HOPS routers and ended although the registry holds
\* a next-hop it never visited
C2_Witness ==
    /\ pc = "done"
    /\ Len(visited) = MAX_HOPS
    /\ routers_queried = MAX_HOPS
    /\ InList(Addresses, FanAddr(MAX_HOPS))
    /\ ~InList(visited, FanAddr(MAX_HOPS))

ScenarioAddresses == Range(scenario.ifaces) \cup {scenario.hop, scenario.arp}

C8_LocalStepsAlwaysRun ==
    pc = "done" =>
        /\ {"local_arp", "connections"} \subseteq steps
        /\ ~GatewayDetected => steps = {"gateway", "local_arp", "connections"}
        /\ (GatewayDetected /\ snmp_success = 0) =>
              steps = {"gateway", "interfaces", "local_arp", "connections"}
        /\ snmp_success = 1 =>
              {"gateway", "interfaces", "nexthops", "router_arp"} \subseteq steps

\* a run without a gateway that still found hosts in the local tables
C8_Witness ==
    /\ pc = "done"
    /\ ~GatewayDetected
    /\ steps = {"gateway", "local_arp", "connections"}
    /\ Len(discovered_hosts) = 2

\* C9: when a gateway was detected, the registry holds it at the end of the
\* run, and it is the one entry the result listing reports with the source
\* Gateway.
C9_GatewayReported ==
    (pc = "done" /\ GatewayDetected) =>
        /\ gateway = routers_to_query[1]
        /\ InList(Addresses, gateway)
        /\ Len(report) = Len(discovered_hosts)
        /\ \A i \in 1..Len(report) :
              /\ report[i].ip = discovered_hosts[i].ip_address
              /\ report[i].source = "Gateway" <=> report[i].ip = gateway

\* a finished run with a gateway and hosts from other sources
C9_Witness ==
    /\ pc = "done"
    /\ GatewayDetected
    /\ Len(report) >= 3
    /\ report[1] = [ip |-> GW, source |-> "Gateway"]
    /\ report[3].source = "Router ARP/Local"

\* C10: discover_automatic never returns an error value: what it returns is
\* a count >= 0, the number of entries of the registry, 0 when no source
\* found anything.
C10_ReturnsCount ==
    pc = "done" =>
        /\ ret \in Nat
        /\ ret = Len(discovered_hosts)
        /\ discovered_hosts = <<>> => ret = 0

\* a run in which no source found anything
C10_Witness ==
    /\ pc = "done"
    /\ discovered_hosts = <<>>
    /\ ret = 0

(***************************************************************************)
(* Properties of scan_subnet                                               *)
(***************************************************************************)
\* the two low octets of an address as a number
Low16(o) == o[3] * 256 + o[4]

\* min(2^(32-p) - 2, 254)
CandidateCount(p) == IF 2^(32 - p) - 2 < 254 THEN 2^(32 - p) - 2 ELSE 254

\* the broadcast address of the subnet o/p, for p >= 16
BroadcastOf(o, p) ==
    FormatIp(<<o[1], o[2], (Low16(o) + 2^(32 - p) - 1) \div 256,
               (Low16(o) + 2^(32 - p) - 1) % 256>>)

\* the last step called scan_subnet with an aligned network address and a
\* prefix length from 16 to 30
AlignedScan ==
    /\ scan_call # NoScan
    /\ scan_call.prefix_len \in 16..30
    /\ Len(parse_ip(scan_call.network_addr)) = 4
    /\ Low16(parse_ip(scan_call.network_addr)) % 2^(32 - scan_call.prefix_len) = 0

RegistryFull == discovered_count >= MAX_DISCOVERED_HOSTS

\* C3: for an aligned network address and a prefix length p from 16 to 30,
\* scan_subnet pings distinct candidates, never the network or the broadcast
\* address and never more than min(2^(32-p) - 2, 254) of them; it pings
\* exactly that many unless the registry has become full, which ends the
\* scan; for 192.168.1.0/24 with room in the registry the candidates are
\* exactly 192.168.1.1 through 192.168.1.254, in this order.
C3_ScanCandidates ==
    AlignedScan =>
        /\ Cardinality(Range(probes)) = Len(probes)
        /\ scan_call.network_addr \notin Range(probes)
        /\ BroadcastOf(parse_ip(scan_call.network_addr), scan_call.prefix_len)
              \notin Range(probes)
        /\ Len(probes) <= CandidateCount(scan_call.prefix_len)
        /\ ~RegistryFull => Len(probes) = CandidateCount(scan_call.prefix_len)
        /\ (scan_call = ScanCall(FormatIp(<<192, 168, 1, 0>>), 24) /\ ~RegistryFull) =>
              probes = [i \in 1..254 |-> FormatIp(<<192, 168, 1, i>>)]

\* discover_custom_subnet has scanned 192.168.1.0/24
C3_Witness ==
    /\ op = "discover_custom_subnet"
    /\ pc = "returned"
    /\ scan_call = ScanCall(FormatIp(<<192, 168, 1, 0>>), 24)
    /\ Len(probes) = 254
    /\ probes[1] = LAN1
    /\ probes[254] = FormatIp(<<192, 168, 1, 254>>)

\* C3 as the specification words it: every such scan pings exactly
\* min(2^(32-p) - 2, 254) candidates
C3_ExactCount ==
    AlignedScan => Len(probes) = CandidateCount(scan_call.prefix_len)


(***************************************************************************)
(* Properties of the validation of addresses and communities               *)
(***************************************************************************)
\* a non-empty string of digits and dots
DigitsAndDots(s) ==
    /\ s # <<>>
    /\ \A i \in 1..Len(s) : s[i] \in Digits \cup {"."}

\* a string of letters, digits, '-' and '_'
CredentialChars(s) ==
    \A i \in 1..Len(s) : s[i] \in Lower \cup Upper \cup Digits \cup {"-", "_"}

\* the programs whose command line holds an address
AddressPrograms == {"ping", "traceroute", "snmpwalk"}

\* the functions that take an address argument, and those among them that
\* query a router
AddressCalls ==
    {"ping_host_system", "traceroute_discover", "discover_router_interfaces",
     "discover_nexthop_routers", "try_snmp_community", "discover_snmp_arp"}

SnmpCalls == AddressCalls \ {"ping_host_system", "traceroute_discover"}

\* C5: an address that is empty or holds a character other than a digit or
\* '.' never reaches a command line and never enters the registry: every
\* ping, traceroute and snmpwalk command carries a non-empty address of
\* digits and dots, so does every registry entry whatever step stored it,
\* and a call of a query function with such an argument has issued no
\* command and returned -1 or 0 with an empty list.
C5_MalformedRejected ==
    /\ \A c \in cmds : c.prog \in AddressPrograms => DigitsAndDots(c.addr)
    /\ \A i \in 1..Len(discovered_hosts) : DigitsAndDots(discovered_hosts[i].ip_address)
    /\ (op \in AddressCalls /\ ~DigitsAndDots(call_args.addr)) =>
          /\ cmds = {}
          /\ ret \in {-1, 0}
          /\ result = <<>>

\* a probe of "1.1;x" was refused while the registry held an entry
C5_Witness ==
    /\ op = "ping_host_system"
    /\ call_args.addr = BAD
    /\ cmds = {}
    /\ ret = -1
    /\ discovered_hosts # <<>>

\* a router query that issued no command: its arguments were refused
QueryRefused ==
    /\ op' \in SnmpCalls
    /\ cmds' = {}

\* C7: every snmpwalk command carries a router address of digits and dots
\* and a community of letters, digits, '-' and '_'; a call of a router query
\* whose address or community is not of that form issues no command, and a
\* call that issues none returns 0 or -1 with an empty list and leaves the
\* registry as it was.
C7_SnmpInputsChecked ==
    /\ [](\A c \in cmds : c.prog = "snmpwalk" =>
             DigitsAndDots(c.addr) /\ CredentialChars(c.community))
    /\ [][/\ (/\ op' \in SnmpCalls
              /\ ~(DigitsAndDots(call_args'.addr) /\ CredentialChars(call_args'.community)))
             => cmds' = {}
          /\ QueryRefused =>
                /\ discovered_hosts' = discovered_hosts
                /\ ret' \in {-1, 0}
                /\ result' = <<>>]_vars

\* discover_snmp_arp refused the community "a;b" and the registry kept its
\* entries
C7_Witness ==
    /\ op = "discover_snmp_arp"
    /\ call_args = Args(GW, <<"a", ";", "b">>)
    /\ cmds = {}
    /\ ret = -1
    /\ Len(discovered_hosts) = 2

(***************************************************************************)
(* Properties of the registry under the scans                              *)
(***************************************************************************)
\* this step ran scan_subnet
ScanRan == pc \in {"custom", "local", "hops"} /\ scan_call' # NoScan

\* the entries this step appended to the registry
Added == SubSeq(discovered_hosts', Len(discovered_hosts) + 1, Len(discovered_hosts'))

\* a ping of ip in network net gave a response time
Answered(net, ip) == PingReply(net, ip).ok /\ PingReply(net, ip).tenths >= 0

\* C11: a scan_subnet call leaves the entries it found in place and appends
\* only addresses it probed, whose probe gave a response time and which the
\* registry did not hold, each once; the value it returns is the number of
\* entries it appended, never negative, whatever number of probes failed.
C11_ScanInsertsReachableNew ==
    [][ScanRan =>
          /\ Len(discovered_hosts') >= Len(discovered_hosts)
          /\ SubSeq(discovered_hosts', 1, Len(discovered_hosts)) = discovered_hosts
          /\ hosts_found' = Len(discovered_hosts') - Len(discovered_hosts)
          /\ hosts_found' >= 0
          /\ \A k \in 1..Len(Added) :
                /\ Added[k].ip_address \in Range(probes')
                /\ Answered(network', Added[k].ip_address)
                /\ Added[k].ip_address \notin Range(Addresses)
                /\ \A l \in 1..Len(Added) : k # l => Added[k].ip_address # Added[l].ip_address
          /\ (pc = "custom" /\ ret' # -1) => ret' = hosts_found']_vars

\* a scan that entered with entries in the registry, added one and met
\* addresses that did not answer
C11_Witness ==
    /\ scan_call # NoScan
    /\ hosts_found > 0
    /\ Len(discovered_hosts) > hosts_found
    /\ Len(probes) > hosts_found
    /\ \E i \in 1..Len(probes) : ~Answered(network, probes[i])

\* a scan that met only addresses the registry already held
C11_RescanWitness ==
    /\ scan_call # NoScan
    /\ hosts_found = 0
    /\ \E i \in 1..Len(probes) :
          Answered(network, probes[i]) /\ probes[i] \in Range(Addresses)

(***************************************************************************)
(* Properties of runs that follow one another                              *)
(***************************************************************************)
\* a run of an entry point has returned
RunReturned ==
    \/ op = "discover_automatic" /\ pc = "done"
    \/ op = "discover_snmp_arp" /\ pc = "returned"

\* C12: a run starts from an empty registry: when it returns, the registry
\* holds the entries this run added and no others, so its size is the count
\* the run returns (0 for a run that returns the error value -1), whatever
\* runs came before it.
C12_RunStartsEmpty ==
    RunReturned => Len(discovered_hosts) = (IF ret = -1 THEN 0 ELSE ret)

C14_AppendOnly ==
    /\ [](\A i \in -1..(Len(discovered_hosts) + 1) :
             IF 0 <= i /\ i < Len(discovered_hosts)
             THEN /\ get_discovered_host(i, discovered_hosts).ret = 0
                  /\ get_discovered_host(i, discovered_hosts).ip =
                        discovered_hosts[i + 1].ip_address
                  /\ get_discovered_host(i, discovered_hosts).response_time =
                        discovered_hosts[i + 1].response_time_ms
             ELSE get_discovered_host(i, discovered_hosts).ret = -1)
    /\ [][pc \notin EntryPoint =>
             /\ Len(discovered_hosts') >= Len(discovered_hosts)
             /\ SubSeq(discovered_hosts', 1, Len(discovered_hosts)) = discovered_hosts
             /\ \A i \in 0..(Len(discovered_hosts) - 1) :
                   get_discovered_host(i, discovered_hosts') =
                      get_discovered_host(i, discovered_hosts)]_vars

\* the router reported the gateway's own address among its interfaces, and
\* the run ended with the gateway still the first of four entries
C14_Witness ==
    /\ pc = "done"
    /\ scenario # NoScenario
    /\ \E k \in 1..2 : scenario.ifaces[k] = GW
    /\ Len(discovered_hosts) = 4
    /\ get_discovered_host(0, discovered_hosts).ip = GW

(***************************************************************************)
(* Properties of the walk over the routers                                 *)
(***************************************************************************)
\* the number of interface queries among the queries sent to the router
\* visited last
InterfaceTries ==
    Cardinality({i \in 1..Len(tried) : tried[i].cmd.oid = "ipAdEntAddr"})

\* C15: the queries sent to a router are interface queries with the
\* candidate communities in list order, each once; all but the last of them
\* gave no interface; once one gives interfaces no further community is
\* tried and the next-hop query and then the ARP-table query follow with
\* that same community; nothing else is sent to the router, and no router
\* is visited twice.
C15_CredentialsInOrder ==
    LET n == Len(tried)
        k == InterfaceTries
    IN  /\ Distinct(visited)
        /\ n > 0 => /\ visited # <<>>
                    /\ \A i \in 1..n : tried[i].cmd.addr = visited[Len(visited)]
        /\ k <= Len(communities)
        /\ \A i \in 1..k : /\ tried[i].cmd.oid = "ipAdEntAddr"
                           /\ tried[i].cmd.community = communities[i]
        /\ \A i \in 1..(k - 1) : tried[i].found = 0
        /\ n <= k + 2
        /\ (k >= 1 /\ tried[k].found > 0 /\ n = k) => pc = "nexthop"
        /\ n >= k + 1 => /\ tried[k].found > 0
                         /\ tried[k + 1].cmd.oid = "ipRouteNextHop"
                         /\ tried[k + 1].cmd.community = tried[k].cmd.community
        /\ n = k + 1 => pc = "rarp"
        /\ n = k + 2 => /\ tried[k + 2].cmd.oid = "ipNetToMediaNetAddress"
                        /\ tried[k + 2].cmd.community = tried[k].cmd.community

\* a router that answered under the third community: three interface
\* queries, then the next-hop and the ARP-table query
C15_Witness ==
    /\ Len(tried) = 5
    /\ tried[3].found > 0
    /\ tried[3].cmd.community = communities[3]
    /\ tried[5].cmd.oid = "ipNetToMediaNetAddress"

\* this step sent an interface query that gave no interface
InterfaceTryFailed ==
    /\ pc = "walk"
    /\ tried' # <<>>
    /\ tried'[Len(tried')].cmd.oid = "ipAdEntAddr"
    /\ tried'[Len(tried')].found = 0

\* C16: an interface query that gives no interface changes neither the
\* registry nor the frontier nor the success flag and is followed by no
\* next-hop and no ARP-table query; when the last candidate community has
\* given none, the router has had interface queries only, it counts as
\* visited, and the walk goes on with the next frontier entry if there is
\* one below the visit cap, else to the local steps.
C16_FailedRouterContributesNothing ==
    [][InterfaceTryFailed =>
          /\ discovered_hosts' = discovered_hosts
          /\ routers_to_query' = routers_to_query
          /\ snmp_success' = snmp_success
          /\ pc' \in {"walk", "arp"}
          /\ Len(tried') < Len(communities) =>
                /\ routers_queried' = routers_queried
                /\ pc' = "walk"
          /\ Len(tried') = Len(communities) =>
                /\ \A i \in 1..Len(tried') : tried'[i].cmd.oid = "ipAdEntAddr"
                /\ \A i \in 1..Len(tried') : tried'[i].found = 0
                /\ routers_queried' = routers_queried + 1
                /\ pc' = IF /\ routers_queried' < Len(routers_to_query)
                            /\ routers_queried' < MAX_HOPS
                         THEN "walk" ELSE "arp"]_vars

\* the second router of the walk answered under no community and the walk
\* went on to a third
C16_Witness ==
    /\ pc = "walk"
    /\ routers_queried = 2
    /\ Len(routers_to_query) > 2
    /\ comm = 1
    /\ Len(tried) = Len(communities)
    /\ \A i \in 1..Len(tried) : tried[i].cmd.oid = "ipAdEntAddr" /\ tried[i].found = 0

\* the program points inside the while loop over routers_to_query
InWalk == pc \in {"walk", "nexthop", "rarp"}

\* the place of a program point inside one visit: the tries of the
\* communities in order, then the next-hop query, then the ARP-table query
VisitPlace ==
    IF pc = "walk" THEN comm
    ELSE IF pc = "nexthop" THEN Len(communities) + 1
    ELSE Len(communities) + 2

\* the queries the walk can still send: the visits left under the cap, each
\* of at most Len(communities) + 2 queries, less those of the visit under way
WalkMeasure == (MAX_HOPS - routers_queried) * (Len(communities) + 2) - VisitPlace

\* C17: the frontier never holds more than MAX_HOPS routers and the number of
\* visits never passes its length; inside the walk the measure is not negative
\* and every step either lowers it or ends the walk, whatever the routers
\* report; a walk that has begun reaches the local steps; and outside the
\* walk every frontier entry has been visited or MAX_HOPS visits have been
\* made.
C17_WalkTerminates ==
    /\ [](/\ routers_queried <= Len(routers_to_query)
          /\ Len(routers_to_query) <= MAX_HOPS
          /\ InWalk => WalkMeasure >= 0)
    /\ [][InWalk => \/ pc' = "arp"
                    \/ InWalk' /\ WalkMeasure' < WalkMeasure]_vars
    /\ [](~InWalk => \/ routers_queried = Len(routers_to_query)
                     \/ routers_queried = MAX_HOPS)
    /\ ((InWalk /\ ShortTables) ~> pc = "arp")

\* a walk whose frontier was filled by the next-hops of its routers has
\* ended at the visit cap
C17_Witness ==
    /\ pc = "arp"
    /\ routers_queried = MAX_HOPS
    /\ Len(routers_to_query) = MAX_HOPS
    /\ Len(visited) = MAX_HOPS
    /\ "nexthops" \in steps

\* the routers of the frontier that the registry does not hold
Unrecorded ==
    {i \in 1..Len(routers_to_query) : routers_to_query[i] \notin Range(Addresses)}

\* C18 as stated: every router of the frontier is in the registry.
C18_FrontierRecorded == Unrecorded = {}

\* C18: every router of the frontier is in the registry unless the registry
\* is full: the gateway is stored when it is seeded, and a next-hop new to
\* the frontier is stored too while discovered_count < MAX_DISCOVERED_HOSTS;
\* the routers the registry lacks come after the gateway in the frontier.
C18_FrontierRecordedWhileRoom ==
    /\ ~RegistryFull => Unrecorded = {}
    /\ 1 \notin Unrecorded

\* a walk has put two next-hops behind the gateway, all three stored
C18_Witness ==
    /\ InWalk
    /\ Len(routers_to_query) >= 3
    /\ routers_queried >= 1
    /\ ~RegistryFull
    /\ Unrecorded = {}

\* C19: the flag is 1 exactly when a router of this run has given a
\* non-empty interface list; whatever it is, the step after the walk is the
\* local ARP cache and the step after that the active connections, so a
\* returned run has executed both; the flag shows in the listing only, as
\* the label of the rows that are not the gateway's.
C19_FlagOnlyReports ==
    /\ [](/\ snmp_success \in {0, 1}
          /\ snmp_success = 1 <=> answered)
    /\ [](pc = "done" =>
            /\ {"gateway", "local_arp", "connections"} \subseteq steps
            /\ \A i \in 1..Len(report) :
                  report[i].source =
                     IF i = 1 /\ gateway # <<>> THEN "Gateway"
                     ELSE IF answered THEN "Router ARP/Local" ELSE "Local ARP/Conn")
    /\ [][/\ pc = "arp" => pc' = "conn" /\ "local_arp" \in steps'
          /\ pc = "conn" => pc' = "done" /\ "connections" \in steps']_vars

\* a run has returned with the flag set by an earlier router, the router
\* visited last having answered under no community
C19_Witness ==
    /\ pc = "done"
    /\ snmp_success = 1
    /\ Len(visited) >= 2
    /\ Len(tried) = Len(communities)
    /\ \A i \in 1..Len(tried) : tried[i].found = 0
    /\ Len(report) >= 2


(***************************************************************************)
(* Properties of the standalone passive collectors                         *)
(***************************************************************************)
PassiveReturned ==
    /\ pc = "returned"
    /\ op \in {"discover_arp_cache", "discover_efficient"}

\* C20: when discover_arp_cache or discover_efficient has returned, no two
\* entries of the registry hold the same address, whatever the ARP cache
\* listed.
C20_PassiveOneEntryPerAddress == PassiveReturned => Distinct(Addresses)


(***************************************************************************)
(* Properties of the candidate addresses                                   *)
(***************************************************************************)
\* the address t has the leading p bits of the address o, for p >= 16
InSubnet(t, o, p) ==
    /\ Len(t) = 4
    /\ t[1] = o[1]
    /\ t[2] = o[2]
    /\ Low16(t) \div 2^(32 - p) = Low16(o) \div 2^(32 - p)

\* C21: after a scan of an aligned network address N with a prefix length p
\* from 16 to 30, every address pinged has the leading p bits of N, and the
\* k-th of them is the k-th candidate of discover_network for N and the mask
\* of p.
C21_CandidatesInsideSubnet ==
    AlignedScan =>
        LET o == parse_ip(scan_call.network_addr)
            p == scan_call.prefix_len
        IN  \A k \in 1..Len(probes) :
               /\ InSubnet(parse_ip(probes[k]), o, p)
               /\ probes[k] = discover_network_target(o, PrefixMask(p), 32 - p, k)

\* (1 << (32 - p)) - 2 kept to 32 bits is positive: 2^(32-p) - 2 for p from 2
\* to 30, 2^31 - 2 for p = 1, and -2 for p = 0, where the bit is shifted out
CountPositive(p) == p \in 1..30

\* C22: a scan with prefix length p pings min(2^(32-p) - 2, 254) candidates
\* when the count in int arithmetic is positive and none otherwise, unless
\* the registry has become full; for p = 0 and p = 1 it pings 254.
C22_CountForEveryPrefix ==
    (scan_call # NoScan /\ ~RegistryFull) =>
        LET p == scan_call.prefix_len
        IN  /\ p \in 0..32
            /\ Len(probes) = IF ~CountPositive(p) THEN 0
                             ELSE IF p <= 24 THEN 254
                             ELSE 2^(32 - p) - 2
            /\ p \in {0, 1} => Len(probes) = 254


(***************************************************************************)
(* Properties of the passive collectors taken in any order                 *)
(***************************************************************************)
\* one passive collector of discover_efficient run on the registry hosts,
\* reading what the run c read
collect(which, c, hosts) ==
    IF which = "arp"
    THEN IF c.arp_out.ok THEN arp_cache_loop(c.arp_out.lines, hosts) ELSE hosts
    ELSE IF which = "connections"
    THEN IF c.conn_out.ok THEN connections_loop(c.conn_out.lines, hosts) ELSE hosts
    ELSE add_gateway(c.gateway_out, hosts)

\* the three collectors run in the order given, from the empty registry
in_order(order, c) ==
    collect(order[3], c, collect(order[2], c, collect(order[1], c, <<>>)))

Collectors == {"arp", "connections", "gateway"}

CollectorOrders == {o \in [1..3 -> Collectors] : Range(o) = Collectors}

\* the addresses of the entries of hosts that lie inside the array
RegistrySet(hosts) ==
    {hosts[i].ip_address : i \in 1..Len(hosts) \cap 1..MAX_DISCOVERED_HOSTS}

EfficientEnded == op = "discover_efficient" /\ pc \in {"returned", "fault"}

\* the run of discover_efficient left what its own order of the collectors
\* gives, and every other order gives the same set of addresses
SameInEveryOrder ==
    /\ RegistrySet(in_order(<<"arp", "connections", "gateway">>, call_args))
          = RegistrySet(discovered_hosts)
    /\ \A o \in CollectorOrders :
          RegistrySet(in_order(o, call_args)) = RegistrySet(discovered_hosts)

Loopback(ip) == validate_ip_string(ip) /\ parse_ip(ip)[1] = 127

\* no entry the connection step added to the registry before is a loopback
\* address
AddedNoLoopback(before, after) ==
    \A i \in (Len(before) + 1)..Len(after) : ~Loopback(after[i].ip_address)

\* the peers the outputs of the model give in IPv6-mapped form
MappedPeers == {PUB, localhost}

\* a peer printed as ::ffff:a.b.c.d is in the registry as a.b.c.d, unless it
\* is a loopback address or the registry is full, and never in the mapped form
MappedPlain(out, hosts) ==
    \A peer \in MappedPeers :
       (out.ok /\ ConnLine(v4mapped \o peer \o Port) \in Range(out.lines)) =>
          /\ (~Loopback(peer) /\ Len(hosts) < MAX_DISCOVERED_HOSTS) =>
                peer \in RegistrySet(hosts)
          /\ (v4mapped \o peer) \notin RegistrySet(hosts)
          /\ Take(v4mapped \o peer, MAX_IP_LEN - 1) \notin RegistrySet(hosts)

NetstatReturned == op = "discover_netstat" /\ pc = "returned"

\* C24: the connection collector adds no loopback address to the registry and
\* records a peer given as ::ffff:a.b.c.d as a.b.c.d, in discover_netstat, in
\* step 2 of discover_efficient and in the connection step of
\* discover_automatic.
C24_ConnectionsNoLoopback ==
    /\ [](NetstatReturned =>
             /\ AddedNoLoopback(<<>>, discovered_hosts)
             /\ MappedPlain(call_args.conn_out, discovered_hosts))
    /\ [](EfficientEnded =>
             LET cached == collect("arp", call_args, <<>>)
                 connected == collect("connections", call_args, cached)
             IN  /\ SubSeq(discovered_hosts, 1, Len(connected)) = connected
                 /\ AddedNoLoopback(cached, connected)
                 /\ MappedPlain(call_args.conn_out, connected))
    /\ [][(pc = "conn" /\ pc' = "done") =>
             AddedNoLoopback(discovered_hosts, discovered_hosts')]_vars


(***************************************************************************)
(* Properties of traceroute_discover                                       *)
(***************************************************************************)
TraceReturned == op = "traceroute_discover" /\ pc = "returned"

\* a line of the trace for a hop that answered
HopAnswered(line) == line.hop /\ line.tok # <<>> /\ line.tok # <<"*">>

\* the addresses of the hops that answered, in the order of the trace
Hops(lines) ==
    LET answered_lines == SelectSeq(lines, HopAnswered)
    IN  [k \in 1..Len(answered_lines) |-> answered_lines[k].tok]

\* C25: traceroute_discover returns the addresses of the hops in the order
\* of the trace, leaves out the hops that timed out, returns at most MAX_HOPS
\* of them, and for a target that is empty or has a character other than
\* digits and '.' returns -1 with no hop and without running traceroute.
C25_TraceHops ==
    TraceReturned =>
        LET out == call_args.trace_out
        IN  /\ Len(result) <= MAX_HOPS
            /\ <<"*">> \notin Range(result)
            /\ ~DigitsAndDots(call_args.addr) =>
                  ret = -1 /\ result = <<>> /\ cmds = {}
            /\ (DigitsAndDots(call_args.addr) /\ out.ok) =>
                  /\ result = Take(Hops(out.lines), MAX_HOPS)
                  /\ ret = Len(result)

\* a trace of more than MAX_HOPS hops with two that timed out
C25_Witness ==
    /\ TraceReturned
    /\ call_args.addr = GW
    /\ call_args.trace_out = Output(LongPath)
    /\ Len(Hops(LongPath)) > MAX_HOPS
    /\ ret = MAX_HOPS
    /\ result[3] = FanAddr(5)


(***************************************************************************)
(* The capacity of the registry                                            *)
(***************************************************************************)
\* C26: the number of registry entries is between 0 and MAX_DISCOVERED_HOSTS
\* in every state of every discovery operation, so that no entry is written
\* at an index at or beyond the capacity, whatever the collaborators print.
C26_RegistryWithinCapacity ==
    /\ discovered_count \in 0..MAX_DISCOVERED_HOSTS
    /\ pc # "fault"


(***************************************************************************)
(* The source Gateway in the result listing                                *)
(***************************************************************************)
\* C27: in the result listing of discover_automatic a row has the source
\* Gateway only if its address is the default gateway that was detected;
\* when the detection failed no row has it.
C27_GatewayLabelOnlyForGateway ==
    pc = "done" =>
        \A i \in 1..Len(report) :
           report[i].source = "Gateway" =>
              /\ GatewayDetected
              /\ report[i].ip = routers_to_query[1]


(***************************************************************************)
(* The local ARP step of discover_automatic and discover_arp_cache         *)
(***************************************************************************)
ArpCacheRead == op = "discover_arp_cache" /\ pc = "returned" /\ call_args.arp_out.ok

\* the addresses the local ARP step of discover_automatic accepts for lines
AutomaticAccepts(lines) == RegistrySet(automatic_arp_loop(lines, "", <<>>))

\* C28: for the lines of an ARP cache that leaves room in the registry, the
\* local ARP step of discover_automatic accepts a line whenever it accepts
\* that line read alone, and it accepts exactly the addresses that
\* discover_arp_cache, which has just read these lines, accepted.
C28_ArpLinesJudgedAlone ==
    (ArpCacheRead /\ ~RegistryFull) =>
        LET lines == call_args.arp_out.lines
        IN  /\ AutomaticAccepts(lines)
                  = UNION {AutomaticAccepts(<<lines[k]>>) : k \in 1..Len(lines)}
            /\ AutomaticAccepts(lines) = RegistrySet(discovered_hosts)


(***************************************************************************)
(* The subnets discover_multi_subnet scans                                 *)
(***************************************************************************)
\* the /24 network of an address given by its octets
Net24(o) == <<o[1], o[2], o[3]>>

\* C29: in a run of discover_multi_subnet a hop of the trace triggers a scan
\* only if it is one of the first five hops, its address is private, and
\* its /24 is neither the /24 of the local network nor the /24 of an earlier
\* hop, so that no /24 is scanned twice.
C29_NoSubnetTwice ==
    [][(pc = "hops" /\ scan_call' # NoScan) =>
          LET gw == parse_ip(gateways[hop_index + 1])
          IN  /\ hop_index + 1 <= 5
              /\ scan_call' = ScanCall(FormatIp(<<gw[1], gw[2], gw[3], 0>>), 24)
              /\ InPrivateRange(gateways[hop_index + 1])
              /\ Net24(gw) # Net24(parse_ip(network_addr))
              /\ \A k \in 1..hop_index :
                    Net24(parse_ip(gateways[k])) # Net24(gw)]_vars


(***************************************************************************)
(* The argument of discover_custom_subnet                                  *)
(***************************************************************************)
CustomReturned == op = "discover_custom_subnet" /\ pc = "returned"

\* the run returned -1, pinged nothing and left the registry empty
CustomRejected == ret = -1 /\ probes = <<>> /\ cmds = {} /\ discovered_hosts = <<>>

\* a prefix length from 16 to 30 written as a number
PrefixInRange(text) == text \in {Dec(p) : p \in 16..30}

\* C30: discover_custom_subnet returns -1 without a ping and with an empty
\* registry when the text after '/' is not a number from 16 to 30 or the
\* text before it has a character other than digits and '.'; an argument
\* without '/' is scanned with the prefix length 24.
C30_CustomArgumentChecked ==
    CustomReturned =>
        LET subnet_cidr == call_args.addr
            slash == FirstSlash(subnet_cidr, 1)
            network_part == SubSeq(subnet_cidr, 1, slash - 1)
            prefix_part == SubSeq(subnet_cidr, slash + 1, Len(subnet_cidr))
        IN  IF slash = 0
            THEN IF DigitsAndDots(subnet_cidr)
                 THEN scan_call = ScanCall(Take(subnet_cidr, MAX_IP_LEN - 1), 24)
                 ELSE CustomRejected
            ELSE (~PrefixInRange(prefix_part) \/ ~DigitsAndDots(network_part)) =>
                    CustomRejected

====
